---------------------------- MODULE Spec2Model ----------------------------
(***************************************************************************)
(* Feature engineering pipeline of the trading copilot: the daily news     *)
(* aggregator (batch news processor and incremental lambda), the           *)
(* historical feature builder (create_features) and the incremental        *)
(* feature engineer lambda (calculate_single_day_features, lambda_handler).*)
(*                                                                         *)
(* Numbers.  A pandas/numpy float is modelled by an exact rational <<n,d>> *)
(* in lowest terms with d > 0; NaN is <<0,0>>.  Columns holding a standard *)
(* deviation (volatility_20d, sentiment_std_24h) hold the SQUARE of the    *)
(* value (the variance): the square root is injective on non-negative      *)
(* numbers, so null-ness, zero-ness and equality of two values carry over. *)
(* Dates are day ordinals, day 0 being 2020-01-01.                         *)
(***************************************************************************)
EXTENDS Integers, Sequences, FiniteSets, TLC

(***************************************************************************)
(* Program constants                                                       *)
(***************************************************************************)
LOOKBACK_DAYS_PRICE == 250
LOOKBACK_DAYS_NEWS_ROLLING == 5
RETENTION_DAYS == 365 * 3       \* timedelta(days=365 * 3)
RSI_WINDOW == 14
ABN_VOLUME_WINDOW == 30
VOLATILITY_WINDOW == 20
MA_SHORT_WINDOW == 50
MA_LONG_WINDOW == 200
MOM_PERIODS == 5
SENTIMENT_ROLL_WINDOW == 3
LOSS_FLOOR_EXP == 9             \* avg_loss of 0 is replaced by 1e-9
FMT_SCALE == 10000              \* f"{x:.4f}"
MIN_KEY_PARTS == 4              \* len(parts) < 4
STATUS_OK == 200
STATUS_PARTIAL == 207

FEATURE_S3_PREFIX == "features/daily_inference/"

(***************************************************************************)
(* Exact rational arithmetic with NaN                                      *)
(***************************************************************************)
NaN == <<0, 0>>

IsNaN(x) == x[2] = 0

Abs(n) == IF n < 0 THEN -n ELSE n

RECURSIVE GCD(_, _)
GCD(a, b) == IF b = 0 THEN a ELSE GCD(b, a % b)

Rat(n, d) ==
    IF d = 0 THEN NaN
    ELSE LET g == GCD(Abs(n), Abs(d))
             s == IF d < 0 THEN -1 ELSE 1
         IN  <<(s * n) \div g, (s * d) \div g>>

Whole(n) == <<n, 1>>

Zero == Whole(0)

RAdd(x, y) ==
    IF IsNaN(x) \/ IsNaN(y) THEN NaN
    ELSE LET g == GCD(x[2], y[2])
         IN  Rat(x[1] * (y[2] \div g) + y[1] * (x[2] \div g), (x[2] \div g) * y[2])

RNeg(x) == IF IsNaN(x) THEN NaN ELSE <<-x[1], x[2]>>

RSub(x, y) == RAdd(x, RNeg(y))

RMul(x, y) ==
    IF IsNaN(x) \/ IsNaN(y) THEN NaN
    ELSE LET g1 == GCD(Abs(x[1]), y[2])
             g2 == GCD(Abs(y[1]), x[2])
             h1 == IF g1 = 0 THEN 1 ELSE g1
             h2 == IF g2 = 0 THEN 1 ELSE g2
         IN  Rat((x[1] \div h1) * (y[1] \div h2), (x[2] \div h2) * (y[2] \div h1))

\* float division: 0/0 is NaN (a non-zero numerator over 0 cannot arise: closes are positive)
RDiv(x, y) ==
    IF IsNaN(x) \/ IsNaN(y) \/ y[1] = 0 THEN NaN
    ELSE RMul(x, Rat(y[2], y[1]))

\* x > y on floats: any comparison with NaN is False
RGt(x, y) == ~IsNaN(x) /\ ~IsNaN(y) /\ x[1] * y[2] > y[1] * x[2]

RLt(x, y) == RGt(y, x)

RECURSIVE SumSeq(_)
SumSeq(xs) ==
    IF xs = <<>> THEN Zero
    ELSE IF Len(xs) = 1 THEN xs[1]
    ELSE LET half == Len(xs) \div 2
         IN  RAdd(SumSeq(SubSeq(xs, 1, half)), SumSeq(SubSeq(xs, half + 1, Len(xs))))

\* np.mean of a non-empty list of numbers
Mean(xs) == RDiv(SumSeq(xs), Whole(Len(xs)))

Sq(x) == RMul(x, x)

\* square of np.std(xs): population variance (ddof = 0)
PopVariance(xs) ==
    LET m == Mean(xs)
    IN  Mean([i \in 1..Len(xs) |-> Sq(RSub(xs[i], m))])

\* square of pandas .std(): sample variance (ddof = 1), NaN below two observations
SampleVariance(xs) ==
    IF Len(xs) < 2 THEN NaN
    ELSE LET m == Mean(xs)
         IN  RDiv(SumSeq([i \in 1..Len(xs) |-> Sq(RSub(xs[i], m))]), Whole(Len(xs) - 1))

(***************************************************************************)
(* Calendar: day ordinals, day 0 = 2020-01-01 (a Wednesday)                *)
(***************************************************************************)
IsLeap(y) == (y % 4 = 0 /\ y % 100 # 0) \/ y % 400 = 0

DaysInYear(y) == IF IsLeap(y) THEN 366 ELSE 365

MonthLengths(y) ==
    <<31, IF IsLeap(y) THEN 29 ELSE 28, 31, 30, 31, 30, 31, 31, 30, 31, 30, 31>>

RECURSIVE YearDay(_, _)
\* <<year, zero-based day of year>> of ordinal d counted from 1 January of year y
YearDay(y, d) == IF d < DaysInYear(y) THEN <<y, d>> ELSE YearDay(y + 1, d - DaysInYear(y))

RECURSIVE MonthFrom(_, _, _)
MonthFrom(y, m, d) ==
    IF d < MonthLengths(y)[m] THEN m ELSE MonthFrom(y, m + 1, d - MonthLengths(y)[m])

\* df['date'].dt.month
MonthOfYear(d) == LET yd == YearDay(2020, d) IN MonthFrom(yd[1], 1, yd[2])

\* df['date'].dt.dayofweek (Monday = 0)
DayOfWeek(d) == (d + 2) % 7

(***************************************************************************)
(* Sentiment scorer (Amazon Comprehend behind get_sentiment_score)         *)
(***************************************************************************)
\* What comprehend.detect_sentiment answers for a headline; "ClientError" is a raise.
\* A title stands for its text; a missing or null title behaves as "" (falsy).
DetectSentiment(text) ==
    CASE text = "rally"   -> "POSITIVE"
      [] text = "slump"   -> "NEGATIVE"
      [] text = "update"  -> "NEUTRAL"
      [] text = "swings"  -> "MIXED"
      [] OTHER            -> "ClientError"

get_sentiment_score(text) ==
    IF text = "" THEN Zero
    ELSE LET sentiment == DetectSentiment(text)
         IN  CASE sentiment = "POSITIVE" -> Whole(1)
               [] sentiment = "NEGATIVE" -> Whole(-1)
               [] OTHER                  -> Zero

\* A Python value handed to the scorer: its type, its text when it is a str, and
\* its truth value
PyValue(type, text, truthy) == [text |-> text, type |-> type, truthy |-> truthy]

\* what the call of the scorer ends with: a returned number or a raised exception
Returned(x) == [raised |-> "", value |-> x]

Raised(e) == [raised |-> e, value |-> NaN]

\* the labels comprehend.detect_sentiment can answer with
SentimentLabels == {"POSITIVE", "NEGATIVE", "NEUTRAL", "MIXED"}

\* botocore's ClientError, by error code
ClientErrorCodes == {"TextSizeLimitExceededException", "ThrottlingException"}

\* the try block of get_sentiment_score, given how detect_sentiment ends: a label,
\* a response without 'Sentiment' (KeyError), or an exception of the client
TryDetect(answer) ==
    CASE answer = "POSITIVE"          -> Returned(Whole(1))
      [] answer = "NEGATIVE"          -> Returned(Whole(-1))
      [] answer \in SentimentLabels   -> Returned(Zero)
      [] answer = "NoSentimentKey"    -> Raised("KeyError")
      [] OTHER                        -> Raised(answer)

\* get_sentiment_score with the except Exception clause left out
ScoreCallClientErrorOnly(text, answer) ==
    IF ~text.truthy \/ text.type # "str" THEN Returned(Zero)
    ELSE LET tried == TryDetect(answer)
         IN  IF tried.raised \in ClientErrorCodes THEN Returned(Zero) ELSE tried

\* get_sentiment_score (both modules) on any value, given how detect_sentiment ends:
\* except ClientError and except Exception both return 0.0
ScoreCall(text, answer) ==
    IF ~text.truthy \/ text.type # "str" THEN Returned(Zero)
    ELSE LET tried == TryDetect(answer)
         IN  IF tried.raised = "" THEN tried
             ELSE IF tried.raised \in ClientErrorCodes THEN Returned(Zero)
             ELSE Returned(Zero)

(***************************************************************************)
(* f"{x:.4f}" and float(): decimal strings are modelled by their integer   *)
(* number of 1e-4 units                                                    *)
(***************************************************************************)
RoundHalfEven(n, d) ==
    LET q == n \div d
        r == n % d
    IN  IF 2 * r > d \/ (2 * r = d /\ q % 2 = 1) THEN q + 1 ELSE q

\* f"{x:.4f}" of a number x
FormatFixed4(x) ==
    IF x[1] < 0 THEN -RoundHalfEven((-x[1]) * FMT_SCALE, x[2])
    ELSE RoundHalfEven(x[1] * FMT_SCALE, x[2])

RECURSIVE ISqrtBetween(_, _, _)
\* the largest s in lo..hi with s * s <= n
ISqrtBetween(n, lo, hi) ==
    IF lo = hi THEN lo
    ELSE LET mid == (lo + hi + 1) \div 2
         IN  IF mid * mid <= n THEN ISqrtBetween(n, mid, hi) ELSE ISqrtBetween(n, lo, mid - 1)

\* f"{s:.4f}" of the standard deviation s whose square v (0 <= v <= 1) is given:
\* the largest r with (2r - 1)^2 <= 4 * 10^8 * v
FormatFixed4Sqrt(v) ==
    LET big == 4 * FMT_SCALE * FMT_SCALE
        m   == v[1] * (big \div v[2]) + (v[1] * (big % v[2])) \div v[2]
    IN  (ISqrtBetween(m, 0, 2 * FMT_SCALE + 1) + 1) \div 2

\* float("0.3333")
ParseFloat4(units) == Rat(units, FMT_SCALE)

\* square of float("0.4714")
ParseFloat4Squared(units) == Rat(units * units, FMT_SCALE * FMT_SCALE)

(***************************************************************************)
(* Daily news aggregation                                                  *)
(***************************************************************************)
\* DefaultMetrics with -1 as the count of a day without news
DefaultMetricsSentinel ==
    [avg_sentiment_24h  |-> Zero, news_count_24h     |-> Whole(-1),
     positive_count_24h |-> Zero, negative_count_24h |-> Zero,
     sentiment_std_24h  |-> Zero]

\* default_metrics (feature_builder.py) and the defaults of process_current_day_news
DefaultMetrics ==
    [avg_sentiment_24h  |-> Zero, news_count_24h     |-> Zero,
     positive_count_24h |-> Zero, negative_count_24h |-> Zero,
     sentiment_std_24h  |-> Zero]

\* IncrScored without the title test: every English article is scored
IncrScoredAnyTitle(article) == article.lang = "English"

\* the filter of the incremental loop (daily-feature-engineer.py)
IncrScored(article) == article.lang = "English" /\ article.title # ""

\* the filter of the batch loop (news_processor.py)
BatchScored(article) == article.lang = "English" /\ article.title # ""

RECURSIVE IncrScores(_)
IncrScores(articles) ==
    IF articles = <<>> THEN <<>>
    ELSE (IF IncrScored(Head(articles))
          THEN <<get_sentiment_score(Head(articles).title)>> ELSE <<>>)
         \o IncrScores(Tail(articles))

RECURSIVE BatchScores(_)
BatchScores(articles) ==
    IF articles = <<>> THEN <<>>
    ELSE (IF BatchScored(Head(articles))
          THEN <<get_sentiment_score(Head(articles).title)>> ELSE <<>>)
         \o BatchScores(Tail(articles))

RECURSIVE CountPositive(_)
CountPositive(scores) ==
    IF scores = <<>> THEN 0
    ELSE (IF RGt(Head(scores), Zero) THEN 1 ELSE 0) + CountPositive(Tail(scores))

RECURSIVE CountNegative(_)
CountNegative(scores) ==
    IF scores = <<>> THEN 0
    ELSE (IF RLt(Head(scores), Zero) THEN 1 ELSE 0) + CountNegative(Tail(scores))

\* MetricsOf with the sum of the scores as the average
MetricsOfSummed(articles, sentiment_scores) ==
    [avg_sentiment_24h  |-> SumSeq(sentiment_scores),
     news_count_24h     |-> Whole(Len(articles)),
     positive_count_24h |-> Whole(CountPositive(sentiment_scores)),
     negative_count_24h |-> Whole(CountNegative(sentiment_scores)),
     sentiment_std_24h  |-> IF Len(sentiment_scores) >= 2
                            THEN PopVariance(sentiment_scores) ELSE Zero]

\* the metrics computed from a non-empty article list with the given scores
MetricsOf(articles, sentiment_scores) ==
    [avg_sentiment_24h  |-> IF sentiment_scores # <<>> THEN Mean(sentiment_scores) ELSE Zero,
     news_count_24h     |-> Whole(Len(articles)),
     positive_count_24h |-> Whole(CountPositive(sentiment_scores)),
     negative_count_24h |-> Whole(CountNegative(sentiment_scores)),
     sentiment_std_24h  |-> IF Len(sentiment_scores) >= 2
                            THEN PopVariance(sentiment_scores) ELSE Zero]

\* the article list process_current_day_news takes from a raw news object
IncrArticles(obj) ==
    IF obj.kind \in {"dict", "list"} THEN obj.articles ELSE <<>>

\* process_current_day_news: s3ok = FALSE is a failing get_object
process_current_day_news(obj, s3ok) ==
    IF ~s3ok \/ obj.kind \in {"NoSuchKey", "InvalidJSON"} THEN DefaultMetrics
    ELSE LET articles == IncrArticles(obj)
         IN  IF articles = <<>> THEN DefaultMetrics
             ELSE MetricsOf(articles, IncrScores(articles))

\* process_news_file up to its write: "skip" (an early return, nothing written),
\* "raise" (data.get on a bare list, outside the try) or "write"
NewsFileOutcome(obj) ==
    CASE obj.kind \in {"NoSuchKey", "InvalidJSON"} -> "skip"
      [] obj.kind = "list"                          -> "raise"
      [] obj.kind = "dict" /\ obj.articles # <<>>   -> "write"
      [] OTHER                                      -> "skip"

\* the metrics process_news_file computes when it reaches its write
NewsFileMetrics(obj) == MetricsOf(obj.articles, BatchScores(obj.articles))

\* ItemToWrite with the number of positive and negative articles as count_24h
ItemToWriteScoredCount(m) ==
    [avg_sentiment_24h  |-> FormatFixed4(m.avg_sentiment_24h),
     positive_count_24h |-> m.positive_count_24h[1],
     negative_count_24h |-> m.negative_count_24h[1],
     sentiment_std_24h  |-> FormatFixed4Sqrt(m.sentiment_std_24h),
     count_24h          |-> m.positive_count_24h[1] + m.negative_count_24h[1]]

\* item_to_write of process_news_file (key fields apart)
ItemToWrite(m) ==
    [avg_sentiment_24h  |-> FormatFixed4(m.avg_sentiment_24h),
     positive_count_24h |-> m.positive_count_24h[1],
     negative_count_24h |-> m.negative_count_24h[1],
     sentiment_std_24h  |-> FormatFixed4Sqrt(m.sentiment_std_24h),
     count_24h          |-> m.news_count_24h[1]]

NoItem == [avg_sentiment_24h |-> -1 - FMT_SCALE, positive_count_24h |-> -1, negative_count_24h |-> -1,
           sentiment_std_24h |-> -1, count_24h |-> -1]

\* read_news_metrics_from_dynamodb (feature_builder.py): ddbok = FALSE is a failing get_item
read_news_metrics_from_dynamodb(item, ddbok) ==
    IF ddbok /\ item # NoItem
    THEN [avg_sentiment_24h  |-> ParseFloat4(item.avg_sentiment_24h),
          news_count_24h     |-> Whole(item.count_24h),
          positive_count_24h |-> Whole(item.positive_count_24h),
          negative_count_24h |-> Whole(item.negative_count_24h),
          sentiment_std_24h  |-> ParseFloat4Squared(item.sentiment_std_24h)]
    ELSE DefaultMetrics

\* read_historical_news_metrics (daily-feature-engineer.py): the average only
read_historical_news_metrics(item, ddbok) ==
    IF ddbok /\ item # NoItem THEN ParseFloat4(item.avg_sentiment_24h) ELSE Zero

(***************************************************************************)
(* Column operations of the feature frame.  A column is a sequence of      *)
(* numbers, one per row of the date-sorted price frame.                    *)
(***************************************************************************)
NonNaN(xs) == SelectSeq(xs, LAMBDA x : ~IsNaN(x))

\* a column given as a function over 1..n, as the sequence of its values
Column(f, n) == SubSeq(f, 1, n)

\* the non-null observations of the window of w rows ending at row i
Observations(col, w, i) == NonNaN(SubSeq(col, IF i - w + 1 < 1 THEN 1 ELSE i - w + 1, i))

\* .rolling(w, min_periods=1).mean()
RollingMean(col, w) ==
    Column([i \in 1..Len(col) |->
               LET obs == Observations(col, w, i) IN IF obs = <<>> THEN NaN ELSE Mean(obs)],
           Len(col))

\* square of .rolling(w, min_periods=1).std()
RollingStd(col, w) ==
    Column([i \in 1..Len(col) |->
               LET obs == Observations(col, w, i)
               IN  IF obs = <<>> THEN NaN ELSE SampleVariance(obs)],
           Len(col))

\* .pct_change(k)
PctChange(col, k) ==
    Column([i \in 1..Len(col) |->
               IF i <= k THEN NaN ELSE RSub(RDiv(col[i], col[i - k]), Whole(1))],
           Len(col))

\* .diff()
Diff(col) ==
    Column([i \in 1..Len(col) |-> IF i = 1 THEN NaN ELSE RSub(col[i], col[i - 1])], Len(col))

\* .shift(1)
Shift(col) == Column([i \in 1..Len(col) |-> IF i = 1 THEN NaN ELSE col[i - 1]], Len(col))

\* np.where(delta > 0, delta, 0.0)
Gain(delta) ==
    Column([i \in 1..Len(delta) |-> IF RGt(delta[i], Zero) THEN delta[i] ELSE Zero],
           Len(delta))

\* np.where(delta < 0, -delta, 0.0)
Loss(delta) ==
    Column([i \in 1..Len(delta) |-> IF RLt(delta[i], Zero) THEN RNeg(delta[i]) ELSE Zero],
           Len(delta))

\* 1e-9, kept symbolic: <<1, 1, 9>> is 1 / (1 * 10^9)
LossFloor == <<1, 1, LOSS_FLOOR_EXP>>

\* .replace(0, 1e-9) on one value of avg_loss
ReplaceZeroLoss(l) == IF l = Zero THEN LossFloor ELSE l

\* rs = avg_gain / avg_loss; g / 1e-9 with g > 0 is kept symbolic as <<n, d, -9>>
RelativeStrength(g, l) ==
    IF l = LossFloor
    THEN IF g = Zero THEN Zero ELSE <<g[1], g[2], -LOSS_FLOOR_EXP>>
    ELSE RDiv(g, l)

\* 100 - (100 / (1 + rs)); with rs = g * 10^9 the value 100 - 100 / (1 + g * 10^9),
\* strictly between 99 and 100, is kept symbolic as <<n, d, 9>>
RsiOf(rs) ==
    IF Len(rs) = 3 THEN <<rs[1], rs[2], LOSS_FLOOR_EXP>>
    ELSE RSub(Whole(100), RDiv(Whole(100), RAdd(Whole(1), rs)))

\* the rsi_14 column of a close column
Rsi14(close) ==
    LET delta    == Diff(close)
        avg_gain == RollingMean(Gain(delta), RSI_WINDOW)
        avg_loss == RollingMean(Loss(delta), RSI_WINDOW)
    IN  Column([i \in 1..Len(close) |->
                   RsiOf(RelativeStrength(avg_gain[i], ReplaceZeroLoss(avg_loss[i])))],
               Len(close))

\* df["volume"] / df["volume"].rolling(30, min_periods=1).mean()
AbnVolume(volume) ==
    LET avg == RollingMean(volume, ABN_VOLUME_WINDOW)
    IN  Column([i \in 1..Len(volume) |-> RDiv(volume[i], avg[i])], Len(volume))

\* TrendSignal with >= as the comparison
TrendSignalNonStrict(ma_50d, ma_200d) ==
    IF RGt(ma_50d, ma_200d) \/ ma_50d = ma_200d THEN Whole(1) ELSE Zero

\* (df['ma_50d'] > df['ma_200d']).astype(int)
TrendSignal(ma_50d, ma_200d) == IF RGt(ma_50d, ma_200d) THEN Whole(1) ELSE Zero

CloseCol(df) == Column([i \in 1..Len(df) |-> Whole(df[i].close)], Len(df))

VolumeCol(df) == Column([i \in 1..Len(df) |-> Whole(df[i].volume)], Len(df))

\* one row of the price, volume and time features both paths compute
PriceRow(bar, ret_1d, mom_5d, rsi_14, abn, lag, vol, ma_50d, ma_200d) ==
    [ma_50d          |-> ma_50d,
     ma_200d         |-> ma_200d,
     ret_1d          |-> ret_1d,
     mom_5d          |-> mom_5d,
     rsi_14          |-> rsi_14,
     date            |-> bar.date,
     abn_volume      |-> abn,
     ret_lag_1d      |-> lag,
     volatility_20d  |-> vol,
     ma_trend_signal |-> TrendSignal(ma_50d, ma_200d),
     day_of_week     |-> Whole(DayOfWeek(bar.date)),
     month_of_year   |-> Whole(MonthOfYear(bar.date)),
     return_x_volume |-> RMul(ret_1d, abn)]

\* the columns derived from close, its one-day return and volume
PriceColumns(df, close, ret_1d, volume) ==
    LET abn     == AbnVolume(volume)
        ma_50d  == RollingMean(close, MA_SHORT_WINDOW)
        ma_200d == RollingMean(close, MA_LONG_WINDOW)
        mom_5d  == PctChange(close, MOM_PERIODS)
        rsi_14  == Rsi14(close)
        lag     == Shift(ret_1d)
        vol     == RollingStd(ret_1d, VOLATILITY_WINDOW)
    IN  Column([i \in 1..Len(df) |->
                   PriceRow(df[i], ret_1d[i], mom_5d[i], rsi_14[i], abn[i], lag[i], vol[i],
                            ma_50d[i], ma_200d[i])],
               Len(df))

\* the price, volume and time features both paths compute, one record per row
PriceFeatures(df) ==
    LET close == CloseCol(df)
    IN  PriceColumns(df, close, PctChange(close, 1), VolumeCol(df))

\* a price row joined with its news features
FeatureRow(symbol, price, return_x_volume, avg_sentiment_24h, counts, avg_sentiment_3d) ==
    [avg_sentiment_24h  |-> avg_sentiment_24h,
     news_count_24h     |-> counts.news_count_24h,
     positive_count_24h |-> counts.positive_count_24h,
     negative_count_24h |-> counts.negative_count_24h,
     sentiment_std_24h  |-> counts.sentiment_std_24h,
     ma_50d             |-> price.ma_50d,
     ma_200d            |-> price.ma_200d,
     ret_1d             |-> price.ret_1d,
     mom_5d             |-> price.mom_5d,
     rsi_14             |-> price.rsi_14,
     date               |-> price.date,
     abn_volume         |-> price.abn_volume,
     ret_lag_1d         |-> price.ret_lag_1d,
     volatility_20d     |-> price.volatility_20d,
     ma_trend_signal    |-> price.ma_trend_signal,
     day_of_week        |-> price.day_of_week,
     month_of_year      |-> price.month_of_year,
     return_x_volume    |-> return_x_volume,
     symbol             |-> symbol,
     avg_sentiment_3d   |-> avg_sentiment_3d]

\* expected_features_for_model (daily-feature-engineer.py): the 18 named features
FeatureNames ==
    {"ret_1d", "mom_5d", "rsi_14", "abn_volume", "ret_lag_1d", "volatility_20d",
     "ma_50d", "ma_200d", "ma_trend_signal", "day_of_week", "month_of_year",
     "return_x_volume", "avg_sentiment_24h", "news_count_24h",
     "positive_count_24h", "negative_count_24h", "sentiment_std_24h",
     "avg_sentiment_3d"}

\* features_to_dropna (feature_builder.py)
FeaturesToDropna ==
    {"ret_1d", "mom_5d", "rsi_14", "abn_volume", "ret_lag_1d", "volatility_20d",
     "ma_50d", "ma_200d", "return_x_volume", "avg_sentiment_3d"}

MaxDate(df) == CHOOSE d \in {df[i].date : i \in 1..Len(df)} :
                   \A j \in 1..Len(df) : df[j].date <= d

(***************************************************************************)
(* Historical path: create_features (feature_builder.py)                   *)
(***************************************************************************)
\* df[col].fillna(0) on the five news columns of a row
FillNews(news) == [f \in DOMAIN news |-> IF IsNaN(news[f]) THEN Zero ELSE news[f]]

\* the rows of create_features before the retention filter, from the price
\* features and the news features read for each row
HistoricalRows(symbol, price, news) ==
    LET roll == RollingMean(Column([i \in 1..Len(news) |-> news[i].avg_sentiment_24h],
                                   Len(news)),
                            SENTIMENT_ROLL_WINDOW)
    IN  Column([i \in 1..Len(price) |->
                   FeatureRow(symbol, price[i], price[i].return_x_volume,
                              news[i].avg_sentiment_24h, news[i], roll[i])],
               Len(price))

\* the frame before the retention filter; tbl maps a date to the stored
\* news_metrics item of (symbol, date), ddbFail holds the dates whose get_item fails
HistoricalFrame(symbol, df, tbl, ddbFail) ==
    LET news == Column([i \in 1..Len(df) |->
                           FillNews(read_news_metrics_from_dynamodb(
                                        tbl[df[i].date], df[i].date \notin ddbFail))],
                       Len(df))
    IN  HistoricalRows(symbol, PriceFeatures(df), news)

\* final_df.dropna(subset=features_to_dropna) keeps a row
KeptByDropna(row) == \A f \in FeaturesToDropna : ~IsNaN(row[f])

\* df[df['date'] >= start_date] keeps a row
InRetention(row, end_date) == row.date >= end_date - RETENTION_DAYS

\* the retention filter and dropna of create_features
RetainedRows(frame, end_date) ==
    SelectSeq(frame, LAMBDA row : InRetention(row, end_date) /\ KeptByDropna(row))

create_features(symbol, df, tbl, ddbFail) ==
    IF df = <<>> THEN <<>>
    ELSE RetainedRows(HistoricalFrame(symbol, df, tbl, ddbFail), MaxDate(df))

(***************************************************************************)
(* Incremental path: calculate_single_day_features                         *)
(***************************************************************************)
\* IncrementalSentiment without the same-day override: the stored summary of the
\* target day is used when there is one
IncrementalSentimentNoOverride(df, target_date, current, tbl, ddbFail) ==
    Column([i \in 1..Len(df) |->
               IF df[i].date >= target_date - LOOKBACK_DAYS_NEWS_ROLLING
                  /\ df[i].date <= target_date
               THEN IF df[i].date = target_date /\ tbl[df[i].date] = NoItem
                    THEN current.avg_sentiment_24h
                    ELSE read_historical_news_metrics(tbl[df[i].date],
                                                      df[i].date \notin ddbFail)
               ELSE Zero],
           Len(df))

\* the avg_sentiment_24h column after the merge with the fetched history, the
\* same-day override and fillna(0.0)
IncrementalSentiment(df, target_date, current, tbl, ddbFail) ==
    Column([i \in 1..Len(df) |->
               IF df[i].date = target_date THEN current.avg_sentiment_24h
               ELSE IF df[i].date >= target_date - LOOKBACK_DAYS_NEWS_ROLLING
                       /\ df[i].date < target_date
                    THEN read_historical_news_metrics(tbl[df[i].date],
                                                      df[i].date \notin ddbFail)
                    ELSE Zero],
           Len(df))

\* FillNaRow without the fillna(0): the selected row is returned as computed
FillNaRowSkipped(row) == row

\* latest_features_row.fillna(0) when any expected feature is null
FillNaRow(row) ==
    IF \E f \in FeatureNames : IsNaN(row[f])
    THEN [f \in DOMAIN row |-> IF f \in FeatureNames /\ IsNaN(row[f]) THEN Zero ELSE row[f]]
    ELSE row

\* the rows of calculate_single_day_features before the target row is selected
IncrementalRows(ticker, price, sent, current) ==
    LET roll == RollingMean(sent, SENTIMENT_ROLL_WINDOW)
        anyv == \E i \in 1..Len(price) : ~IsNaN(price[i].abn_volume)
    IN  Column([i \in 1..Len(price) |->
                   FeatureRow(ticker, price[i],
                              IF anyv THEN price[i].return_x_volume ELSE Zero,
                              sent[i], current, roll[i])],
               Len(price))

\* the frame of the incremental path, one record per row of the price window
IncrementalFrame(ticker, df, target_date, current, tbl, ddbFail) ==
    IncrementalRows(ticker, PriceFeatures(df),
                    IncrementalSentiment(df, target_date, current, tbl, ddbFail), current)

\* LatestRow taking the last row of the frame when no row has the target date
LatestRowOrLast(frame, target_date) ==
    LET latest == SelectSeq(frame, LAMBDA row : row.date = target_date)
    IN  IF latest # <<>> THEN <<FillNaRow(latest[1])>>
        ELSE IF frame = <<>> THEN <<>> ELSE <<FillNaRow(frame[Len(frame)])>>

\* df[df['date'].dt.date == target_date], None when empty, filled when not
LatestRow(frame, target_date) ==
    LET latest == SelectSeq(frame, LAMBDA row : row.date = target_date)
    IN  IF latest = <<>> THEN <<>> ELSE <<FillNaRow(latest[1])>>

\* calculate_single_day_features: <<>> is None, else the one-row frame <<row>>
calculate_single_day_features(ticker, target_date, df, current, tbl, ddbFail) ==
    LatestRow(IncrementalFrame(ticker, df, target_date, current, tbl, ddbFail), target_date)

\* df_price_full[df_price_full['date'].dt.date >= min_hist_date]
PriceWindow(df_price_full, target_date) ==
    SelectSeq(df_price_full, LAMBDA bar : bar.date >= target_date - LOOKBACK_DAYS_PRICE)

(***************************************************************************)
(* Stores and keys                                                         *)
(***************************************************************************)
Ticker == "AAPL"

\* an S3 object key split at "/": root is parts[0], depth is len(parts), the
\* last part is stem + ext, the part before it is the date
PriceKey(d) == [date |-> d, root |-> "stooq", depth |-> 4, stem |-> Ticker, ext |-> ".csv"]

NewsKey(d) == [date |-> d, root |-> "gdelt", depth |-> 4, stem |-> Ticker, ext |-> ".json"]

\* the negation of the skip test of lambda_handler
KeyMatches(key) ==
    ~(key.depth < MIN_KEY_PARTS \/ key.ext # ".csv" \/ key.root # "stooq")

\* an output key without the date part
OutputKeyUndated(target_date, ticker) == <<FEATURE_S3_PREFIX, ticker, "_features.csv">>

\* output_key of lambda_handler
OutputKey(target_date, ticker) == <<FEATURE_S3_PREFIX, target_date, ticker, "_features.csv">>

\* output_file of main (feature_builder.py)
OutputFile(sym) == <<sym, "_features.csv">>

\* PutObject as an append-only log: an earlier object of the key is kept
PutObjectAppend(bucket, key, body) == Append(bucket, [key |-> key, body |-> body])

\* s3_client.put_object: the object stored under the key is replaced
PutObject(bucket, key, body) ==
    Append(SelectSeq(bucket, LAMBDA o : o.key # key), [key |-> key, body |-> body])

\* features_df.to_csv(output_file): the file at the path is rewritten
ToCsv(dir, path, body) ==
    Append(SelectSeq(dir, LAMBDA o : o.key # path), [key |-> path, body |-> body])

ObjectsAt(bucket, key) == SelectSeq(bucket, LAMBDA o : o.key = key)

(***************************************************************************)
(* Bounded inputs                                                          *)
(***************************************************************************)
MaxBars == 3
MaxArticles == 3
MaxRecords == 2

\* dates of the bars of the enumerated price series: seen from 1400, day 100 lies
\* outside the retention window and day 1000 outside the price lookback
BarDays == {100, 1000, 1399, 1400}

Closes == {1, 2}

Volumes == {0, 1}

\* dates that can carry raw news or a stored summary
NewsDays == {1398, 1399, 1400}

Bar(d, c, v) == [close |-> c, volume |-> v, date |-> d]

Bars == {Bar(d, c, v) : d \in BarDays, c \in Closes, v \in Volumes}

RECURSIVE SeqsUpTo(_, _)
\* the sequences over S of length at most n
SeqsUpTo(S, n) ==
    IF n = 0 THEN {<<>>}
    ELSE LET shorter == SeqsUpTo(S, n - 1)
         IN  shorter \cup {Append(q, x) : q \in {r \in shorter : Len(r) = n - 1}, x \in S}

RECURSIVE SortedSeries(_)
\* every date-sorted series of 1..n bars, one bar per date
SortedSeries(n) ==
    IF n = 1 THEN {<<b>> : b \in Bars}
    ELSE LET shorter == SortedSeries(n - 1)
         IN  shorter \cup
             UNION {{Append(q, b) : b \in {x \in Bars : x.date > q[Len(q)].date}} :
                    q \in {r \in shorter : Len(r) = n - 1}}

Daily(first, closes, volumes) ==
    Column([i \in 1..Len(closes) |-> Bar(first + i - 1, closes[i], volumes[i])], Len(closes))

\* six consecutive days ending at 1400: moving, constant, and without any volume
MovingSeries == Daily(1395, <<2, 1, 3, 3, 3, 2>>, <<1, 0, 2, 2, 2, 2>>)

LongSeries ==
    {MovingSeries,
     Daily(1395, <<2, 2, 2, 2, 2, 2>>, <<1, 1, 1, 1, 1, 1>>),
     Daily(1395, <<1, 2, 3, 4, 5, 6>>, <<0, 0, 0, 0, 0, 0>>)}

\* a series whose rows before 1400 lie more than five days back, and one that
\* reaches back beyond the price lookback
GapSeries ==
    {<<Bar(1389, 2, 1), Bar(1390, 2, 2), Bar(1391, 3, 1),
       Bar(1392, 2, 1), Bar(1394, 2, 1), Bar(1400, 3, 2)>>,
     <<Bar(1000, 4, 1), Bar(1395, 1, 1), Bar(1396, 2, 2), Bar(1397, 3, 1),
       Bar(1398, 2, 1), Bar(1399, 2, 1), Bar(1400, 3, 2)>>}

\* a trading halt: MOM_PERIODS + 1 traded days, ABN_VOLUME_WINDOW days without any
\* volume at an unchanged close, and one traded day, ending at 1400
HaltedSeries ==
    LET n == MOM_PERIODS + 1 + ABN_VOLUME_WINDOW + 1
    IN  Column([i \in 1..n |->
                   Bar(MovingSeries[Len(MovingSeries)].date - n + i, 2,
                       IF i <= MOM_PERIODS + 1 \/ i = n THEN 1 ELSE 0)],
               n)

Article(l, t) == [lang |-> l, title |-> t]

ArticleKinds ==
    {Article("English", "rally"), Article("English", "slump"), Article("English", "update"),
     Article("English", "outage"), Article("English", ""), Article("Spanish", "rally")}

NewsObject(k, as) == [articles |-> as, kind |-> k]

NoSuchKey == NewsObject("NoSuchKey", <<>>)

\* raw news objects of the pipeline scenarios
NewsFiles ==
    {NoSuchKey,
     NewsObject("InvalidJSON", <<>>),
     NewsObject("dict", <<Article("English", "rally"), Article("English", "update"),
                          Article("English", "swings")>>),
     NewsObject("dict", <<Article("English", "slump"), Article("Spanish", "rally"),
                          Article("English", "")>>),
     NewsObject("list", <<Article("English", "slump")>>)}

\* summaries the batch processor stored on an earlier run: average 0.5 and -1
StoredHalf ==
    ItemToWrite(MetricsOf(<<Article("English", "rally"), Article("English", "update")>>,
                          <<Whole(1), Zero>>))

StoredMinus == ItemToWrite(MetricsOf(<<Article("English", "slump")>>, <<Whole(-1)>>))

\* the target day of the pipeline scenarios: the last day of MovingSeries
TargetDay == MovingSeries[Len(MovingSeries)].date

PriceTargets == {1399, 1400}

HandlerTargets == {1399, 1400, 1401, 1700}

HandlerSeries ==
    {<<>>,
     <<Bar(1398, 1, 1), Bar(1399, 2, 1), Bar(1400, 2, 0)>>,
     <<Bar(100, 1, 1)>>}

Record(key) == [key |-> key]

RecordKinds == {Record(PriceKey(d)) : d \in HandlerTargets} \cup {Record(NewsKey(1400))}

NoMetrics ==
    [avg_sentiment_24h  |-> NaN, news_count_24h     |-> NaN,
     positive_count_24h |-> NaN, negative_count_24h |-> NaN,
     sentiment_std_24h  |-> NaN]

NoResponse == [statusCode |-> 0, success_count |-> 0, error_count |-> 0]

\* which external calls may fail in a scenario
NoFaults == [s3_price |-> FALSE, s3_news |-> FALSE, s3_put |-> FALSE, ddb |-> FALSE]

NewsFaults == [s3_price |-> FALSE, s3_news |-> TRUE, s3_put |-> FALSE, ddb |-> TRUE]

AllFaults == [s3_price |-> TRUE, s3_news |-> TRUE, s3_put |-> TRUE, ddb |-> TRUE]

\* the results a call can have: TRUE is success
Results(mayFail) == IF mayFail THEN {TRUE, FALSE} ELSE {TRUE}

(***************************************************************************)
(* Prediction chain: the prediction API (inference-caller.py) writes a     *)
(* prediction item, whose stream record makes the SHAP explainer write a   *)
(* shap item, whose stream record makes the explanation handler write an   *)
(* explanation item; the API polls the table for both                      *)
(***************************************************************************)
\* no response body of the endpoint
NoPrediction == [prediction |-> "", confidence |-> NaN, probability_up |-> NaN]

MAX_RETRIES == 5

MaxRequests == 2

\* ddb_pk = f"{ticker}_{target_date_iso}", and what split("_", 1) gives back for
\* a ticker without an underscore
TickerDate(ticker, date) == <<ticker, date>>

\* feature_s3_key of the prediction API
feature_s3_key(target_date_iso, ticker) ==
    <<FEATURE_S3_PREFIX, target_date_iso, ticker, "_features.csv">>

\* key of the SHAP explainer
ShapFeatureKey(ticker, data_found_for) ==
    <<"features/", "symbol=", ticker, "/date=", data_found_for, "/features.csv">>

\* a text: a fixed wording, and the drivers listed after it
Text(wording, drivers) == [wording |-> wording, drivers |-> drivers]

\* explanation.strip()
Strip(text) == IF text.wording = " " THEN Text("", text.drivers) ELSE text

NotYetAvailable == Text("Explanation not yet available.", <<>>)

\* the sentence written when the model gave no text
Unavailable(shap_dict) ==
    Text("Explanation currently unavailable. Key drivers were: ", shap_dict)

\* shap_metrics = {}
NoShapMetrics == [top_features |-> <<>>, values |-> <<>>]

\* items of the shared table; origin is history: the request whose prediction item
\* the item goes back to, 0 for an item of another writer
PredictionItem(ddb_pk, prediction_result, key, target_date_iso, origin) ==
    [prediction       |-> prediction_result.prediction,
     confidence       |-> FormatFixed4(prediction_result.confidence),
     probability_up   |-> FormatFixed4(prediction_result.probability_up),
     data_found_for   |-> target_date_iso,
     origin           |-> origin,
     ticker_date      |-> ddb_pk,
     datatype         |-> "prediction",
     features_s3_path |-> key]

\* the item of the SHAP explainer stored under the datatype the explainer listens to
ShapItemAsPrediction(ticker, asof, top, data_found_for, origin) ==
    [data_found_for |-> data_found_for,
     top_features   |-> top.top_features,
     values         |-> top.values,
     origin         |-> origin,
     ticker_date    |-> TickerDate(ticker, asof),
     datatype       |-> "prediction"]

\* item of the SHAP explainer
ShapItem(ticker, asof, top, data_found_for, origin) ==
    [data_found_for |-> data_found_for,
     top_features   |-> top.top_features,
     values         |-> top.values,
     origin         |-> origin,
     ticker_date    |-> TickerDate(ticker, asof),
     datatype       |-> "shap"]

\* _put_explanation_item
ExplanationItem(ticker, date_str, explanation, model_id, origin) ==
    [origin           |-> origin,
     ticker_date      |-> TickerDate(ticker, date_str),
     datatype         |-> "explanation",
     model_id         |-> model_id,
     explanation_text |-> Strip(explanation)]

\* an item of another writer of the table: the collector, the batch news processor
OtherItem(ticker_date, datatype) ==
    [origin |-> 0, ticker_date |-> ticker_date, datatype |-> datatype]

ItemKey(item) == <<item.ticker_date, item.datatype>>

\* table.put_item
PutItem(tbl, item) ==
    [k \in DOMAIN tbl \cup {ItemKey(item)} |-> IF k = ItemKey(item) THEN item ELSE tbl[k]]

\* table.query(KeyConditionExpression = Key('ticker_date').eq(ddb_pk))
Query(tbl, ddb_pk) == {tbl[k] : k \in {j \in DOMAIN tbl : j[1] = ddb_pk}}

RECURSIVE PutAll(_, _)
\* the table after the puts of the items, in order
PutAll(tbl, its) == IF its = <<>> THEN tbl ELSE PutAll(PutItem(tbl, its[1]), Tail(its))

\* the stream record of the put of an item
StreamRecord(tbl, item) ==
    [eventName |-> IF ItemKey(item) \in DOMAIN tbl THEN "MODIFY" ELSE "INSERT",
     NewImage  |-> item]

RECURSIVE RecordsOf(_, _)
\* the stream records of the puts of the items, in order
RecordsOf(tbl, its) ==
    IF its = <<>> THEN <<>>
    ELSE <<StreamRecord(tbl, its[1])>> \o RecordsOf(PutItem(tbl, its[1]), Tail(its))

\* str(x) of a float, and float(s) of such a string
StrOf(x) == [repr |-> x]

Float(s) == s.repr

\* no request of the prediction API has been made
NoRequest ==
    [statusCode       |-> 0,
     prediction       |-> NoPrediction,
     ddb_pk           |-> TickerDate(Ticker, 0),
     explanation_text |-> NotYetAvailable,
     pc               |-> "idle",
     request          |-> 0,
     attempt          |-> 0,
     shap_metrics     |-> NoShapMetrics,
     shap_origin      |-> 0,
     text_origin      |-> 0]

\* no invocation of a stream handler yet
NoInvocation == [handler |-> "", returned |-> "", batch |-> <<>>, attempts |-> <<>>]

(***************************************************************************)
(* State                                                                   *)
(***************************************************************************)
VARIABLES
    invocations,    \* the concurrent invocations of the feature engineer: id -> local state
    collector_pc,   \* how far the running collector invocation has come for Ticker
    items,          \* (ticker_date, datatype) -> item of the prediction chain in DynamoDB
    streams,        \* the stream records of the table, and how many of them each
                    \* stream handler has been given
    api,            \* the latest request of the prediction API
    chain_log,      \* the latest invocation of a stream handler: its batch and its puts
    trend_rows,     \* the moving averages and trend signal computed for the price rows on their own
    scorer_calls,   \* the calls of get_sentiment_score made directly: argument, service answer, result
    predictions,    \* the requests served by the model endpoint, with their responses
    today,          \* datetime.date.today() of the daily collector
    collected,      \* date -> item of datatype "news" of (Ticker, date) in DynamoDB
    priceCsv,       \* the rows of the ticker's price CSV, sorted by date
    rawNews,        \* date -> raw news object of (Ticker, date) in the raw bucket
    table,          \* date -> news_metrics item of (Ticker, date) in DynamoDB
    localOutput,    \* files written by main of feature_builder.py
    curated,        \* objects of the curated bucket
    event,          \* the S3 event of the running lambda_handler invocation
    idx,            \* position of the handler's loop in event['Records']
    success_count,
    error_count,
    outcomes,       \* what the loop did with each record it has handled
    response,       \* the value lambda_handler returned
    pc,             \* "idle", "loop" or "done"
    last_metrics,   \* the metrics last computed at each aggregation call site
    runs,           \* per handled record: whether its features were computed and
                    \* the reads that failed while computing them
    hist_run,       \* the same for the last run of the historical backfill
    raised          \* the operations that ended with an uncaught exception

vars == <<invocations, collector_pc, items, streams, api, chain_log, trend_rows, scorer_calls, predictions, today, collected, priceCsv, rawNews, table, localOutput, curated, event, idx, success_count,
          error_count, outcomes, runs, response, pc, last_metrics, hist_run, raised>>

env == <<today, collected, priceCsv, rawNews>>

\* the direct calls of the scorer, of the model endpoint and of the trend columns
direct == <<scorer_calls, predictions, trend_rows>>

\* the prediction API and the stream handlers behind it
chain == <<items, streams, api, chain_log>>

\* everything outside the feature pipeline of one invocation
clients == <<direct, chain, invocations, collector_pc>>

handlerVars == <<event, idx, success_count, error_count, outcomes, runs, response, pc>>

TableItem(d) == IF d \in DOMAIN table THEN table[d] ELSE NoItem

RawNewsObject(d) == IF d \in DOMAIN rawNews THEN rawNews[d] ELSE NoSuchKey

\* the stored items of the dates of a frame, as the feature paths read them
TableView(df) == [d \in {df[i].date : i \in 1..Len(df)} |-> TableItem(d)]

\* dates with a stored item: a failing get_item elsewhere changes nothing
ItemDays == {d \in DOMAIN table : table[d] # NoItem}

\* the sets of dates whose get_item may fail in one run: none, or one of days
DdbFailures(mayFail, days) == IF mayFail THEN {{}} \cup {{d} : d \in days} ELSE {{}}

\* no run of the path yet
NotRun == [ran |-> FALSE, news_failed |-> FALSE, ddb_failed |-> {}]

\* no item of datatype "news" for the date
NotCollected == [count_24h |-> -1, datatype |-> "none"]

\* an invocation of the feature engineer that has not begun
NotStarted == [target_date |-> 0, pc |-> "idle", features_df |-> <<>>]

\* the invocations of the feature engineer that may run at the same time
Invocations == {"A", "B"}

InitLocals ==
    /\ invocations = [w \in Invocations |-> NotStarted]
    /\ collector_pc = "idle"
    /\ items = <<>>
    /\ streams = [records |-> <<>>, shap_read |-> 0, explain_read |-> 0]
    /\ api = NoRequest
    /\ chain_log = NoInvocation
    /\ trend_rows = <<>>
    /\ scorer_calls = <<>>
    /\ predictions = <<>>
    /\ collected = [d \in NewsDays |-> NotCollected]
    /\ localOutput = <<>>
    /\ event = <<>>
    /\ idx = 0
    /\ success_count = 0
    /\ error_count = 0
    /\ outcomes = <<>>
    /\ response = NoResponse
    /\ pc = "idle"
    /\ last_metrics = [batch |-> NoMetrics, incr |-> NoMetrics]
    /\ runs = <<>>
    /\ hist_run = NotRun
    /\ raised = {}

\* nothing has run: every store but the price CSV, the raw news and the news
\* summaries is empty
InitRest ==
    /\ curated = <<>>
    /\ InitLocals

\* news scenarios: raw news for the target day, summaries stored earlier for the
\* target day and the two days before it
Init ==
    /\ today = TargetDay
    /\ priceCsv = MovingSeries
    /\ \E f \in NewsFiles :
           rawNews = [d \in NewsDays |-> IF d = TargetDay THEN f ELSE NoSuchKey]
    /\ \E a \in {NoItem, StoredHalf}, b \in {NoItem, StoredMinus, StoredHalf},
          c \in {NoItem, StoredHalf} :
           table = [d \in NewsDays |-> IF d = TargetDay - 2 THEN a
                                       ELSE IF d = TargetDay - 1 THEN b ELSE c]
    /\ InitRest

\* price scenarios: every short series and the long ones, no news anywhere
InitPrices ==
    /\ today = TargetDay
    /\ priceCsv \in SortedSeries(MaxBars) \cup LongSeries \cup GapSeries \cup {HaltedSeries}
    /\ rawNews = [d \in NewsDays |-> NoSuchKey]
    /\ table = [d \in NewsDays |-> NoItem]
    /\ InitRest

\* aggregator inputs: every article list up to MaxArticles, wrapped or bare
InitAgg ==
    /\ today = TargetDay
    /\ priceCsv = <<Bar(TargetDay, 1, 1)>>
    /\ \E as \in SeqsUpTo(ArticleKinds, MaxArticles), k \in {"dict", "list"} :
           rawNews = [d \in NewsDays |-> IF d = TargetDay THEN NewsObject(k, as)
                                         ELSE NoSuchKey]
    /\ table = [d \in NewsDays |-> NoItem]
    /\ InitRest

\* handler scenarios: a few price files, news for the target day present or not
InitHandler ==
    /\ today = TargetDay
    /\ priceCsv \in HandlerSeries
    /\ \E f \in {NoSuchKey, NewsObject("list", <<Article("English", "slump")>>)} :
           rawNews = [d \in NewsDays |-> IF d = TargetDay THEN f ELSE NoSuchKey]
    /\ table = [d \in NewsDays |-> NoItem]
    /\ InitRest

(***************************************************************************)
(* Batch news processor: process_news_file(Ticker, d)                      *)
(***************************************************************************)
ProcessNewsFile(d, F) ==
    LET obj     == rawNews[d]
        outcome == NewsFileOutcome(obj)
    IN  /\ outcome # "skip"
        /\ IF outcome = "raise"
           THEN /\ raised' = raised \cup {"process_news_file"}
                /\ UNCHANGED <<table, last_metrics>>
           ELSE \E putok \in Results(F.ddb) :
                   /\ last_metrics' = [last_metrics EXCEPT !.batch = NewsFileMetrics(obj)]
                   /\ table' = IF putok
                               THEN [table EXCEPT ![d] = ItemToWrite(NewsFileMetrics(obj))]
                               ELSE table
                   /\ UNCHANGED raised
        /\ UNCHANGED <<env, clients, localOutput, curated, handlerVars, hist_run>>

(***************************************************************************)
(* Historical backfill: main of feature_builder.py for Ticker              *)
(***************************************************************************)
\* if not features_df.empty: features_df.to_csv(output_file)
SaveLocal(dir, path, features_df) ==
    IF features_df # <<>> THEN ToCsv(dir, path, features_df) ELSE dir

HistoricalMain(F) ==
    \E ddbFail \in DdbFailures(F.ddb, ItemDays) :
        /\ localOutput' = SaveLocal(localOutput, OutputFile(Ticker),
                                    create_features(Ticker, priceCsv, TableView(priceCsv),
                                                    ddbFail))
        /\ hist_run' = [ran |-> TRUE, news_failed |-> FALSE, ddb_failed |-> ddbFail]
        /\ UNCHANGED <<env, clients, table, curated, handlerVars, last_metrics, raised>>

(***************************************************************************)
(* Incremental feature engineer: lambda_handler                            *)
(***************************************************************************)
Invoke(ev) ==
    /\ pc = "idle"
    /\ event' = ev
    /\ idx' = 1
    /\ success_count' = 0
    /\ error_count' = 0
    /\ outcomes' = <<>>
    /\ runs' = <<>>
    /\ pc' = "loop"
    /\ UNCHANGED <<env, clients, table, localOutput, curated, response, last_metrics, hist_run,
                   raised>>

\* the dates whose stored summary calculate_single_day_features fetches
FetchedDays(target_date) ==
    {d \in DOMAIN table : d >= target_date - LOOKBACK_DAYS_NEWS_ROLLING /\ d < target_date}

\* the loop body for a record whose key does not match: continue
SkipRecord ==
    /\ outcomes' = Append(outcomes, "skipped")
    /\ runs' = Append(runs, NotRun)
    /\ UNCHANGED <<curated, success_count, error_count, last_metrics>>

\* CountError without error_count += 1
CountErrorUncounted(outcome) ==
    /\ outcomes' = Append(outcomes, outcome)
    /\ UNCHANGED <<curated, success_count, error_count>>

\* the loop body ends with error_count += 1
CountError(outcome) ==
    /\ outcomes' = Append(outcomes, outcome)
    /\ error_count' = error_count + 1
    /\ UNCHANGED <<curated, success_count>>

\* the end of the loop body: features_df is None or empty, or it is put to S3
SaveFeatures(target_date, ticker, features_df, F) ==
    IF features_df = <<>>
    THEN CountError("no_features")
    ELSE \E putok \in Results(F.s3_put) :
            IF ~putok
            THEN CountError("put_object_failed")
            ELSE /\ curated' = PutObject(curated, OutputKey(target_date, ticker), features_df)
                 /\ success_count' = success_count + 1
                 /\ outcomes' = Append(outcomes, "saved")
                 /\ UNCHANGED error_count

\* the loop body from the news of the target day on, for a non-empty price window
EngineerFeatures(target_date, ticker, window, current, ddbFail, F) ==
    /\ last_metrics' = [last_metrics EXCEPT !.incr = current]
    /\ SaveFeatures(target_date, ticker,
                    calculate_single_day_features(ticker, target_date, window, current,
                                                  TableView(window), ddbFail),
                    F)

\* ProcessWindow without the test for an empty price window
ProcessWindowUnchecked(target_date, ticker, window, F) ==
    \E newsok \in Results(F.s3_news),
       ddbFail \in DdbFailures(F.ddb, ItemDays \cap FetchedDays(target_date)) :
        /\ runs' = Append(runs, [ran |-> TRUE, news_failed |-> ~newsok,
                                 ddb_failed |-> ddbFail])
        /\ EngineerFeatures(target_date, ticker, window,
                            process_current_day_news(RawNewsObject(target_date), newsok),
                            ddbFail, F)

\* the loop body after the price CSV is read
ProcessWindow(target_date, ticker, window, F) ==
    IF window = <<>>
    THEN /\ CountError("empty_window")
         /\ runs' = Append(runs, NotRun)
         /\ UNCHANGED last_metrics
    ELSE \E newsok \in Results(F.s3_news),
            ddbFail \in DdbFailures(F.ddb, ItemDays \cap FetchedDays(target_date)) :
            /\ runs' = Append(runs, [ran |-> TRUE, news_failed |-> ~newsok,
                                     ddb_failed |-> ddbFail])
            /\ EngineerFeatures(target_date, ticker, window,
                                process_current_day_news(RawNewsObject(target_date), newsok),
                                ddbFail, F)

\* the loop body for a record whose key matches
ProcessRecord(record, F) ==
    \E s3ok \in Results(F.s3_price) :
        IF ~s3ok
        THEN /\ CountError("get_object_failed")
             /\ runs' = Append(runs, NotRun)
             /\ UNCHANGED last_metrics
        ELSE ProcessWindow(record.key.date, record.key.stem,
                           PriceWindow(priceCsv, record.key.date), F)

\* one pass of the loop over event['Records']
HandlerRecord(F) ==
    /\ pc = "loop"
    /\ idx <= Len(event)
    /\ IF ~KeyMatches(event[idx].key) THEN SkipRecord ELSE ProcessRecord(event[idx], F)
    /\ idx' = idx + 1
    /\ UNCHANGED <<env, clients, table, localOutput, event, response, pc, hist_run, raised>>

HandlerReturn ==
    /\ pc = "loop"
    /\ idx > Len(event)
    /\ response' = [statusCode    |-> IF error_count = 0 THEN STATUS_OK ELSE STATUS_PARTIAL,
                    success_count |-> success_count,
                    error_count   |-> error_count]
    /\ pc' = "done"
    /\ UNCHANGED <<env, clients, table, localOutput, curated, event, idx, success_count, error_count,
                   outcomes, runs, last_metrics, hist_run, raised>>

(***************************************************************************)
(* Specifications.  The backfill jobs (batch news processor, historical    *)
(* feature builder) run before the daily invocation under study.           *)
(***************************************************************************)
BackfillNews(F) == pc = "idle" /\ \E d \in NewsDays : ProcessNewsFile(d, F)

BackfillFeatures(F) == pc = "idle" /\ HistoricalMain(F)

\* an event with the price file of one target date
InvokeSingle(Targets) == \E d \in Targets : Invoke(<<Record(PriceKey(d))>>)

\* an event with up to MaxRecords records
InvokeBatch == \E ev \in SeqsUpTo(RecordKinds, MaxRecords) : Invoke(ev)

Next ==
    \/ BackfillNews(NewsFaults)
    \/ BackfillFeatures(NewsFaults)
    \/ InvokeSingle({TargetDay})
    \/ HandlerRecord(NewsFaults)
    \/ HandlerReturn

Spec == Init /\ [][Next]_vars

NextPrices ==
    \/ BackfillFeatures(NoFaults)
    \/ InvokeSingle(PriceTargets)
    \/ HandlerRecord(NoFaults)
    \/ HandlerReturn

SpecPrices == InitPrices /\ [][NextPrices]_vars

NextAgg ==
    \/ BackfillNews(NoFaults)
    \/ InvokeSingle({TargetDay})
    \/ HandlerRecord(NoFaults)
    \/ HandlerReturn

SpecAgg == InitAgg /\ [][NextAgg]_vars

NextHandler == InvokeBatch \/ HandlerRecord(AllFaults) \/ HandlerReturn

SpecHandler == InitHandler /\ [][NextHandler]_vars

(***************************************************************************)
(* Daily pipeline: the collector (data_collector/handler.py) uploads the   *)
(* price CSV and the raw news of today, which triggers the feature         *)
(* engineer for today                                                      *)
(***************************************************************************)
\* article lists fetch_gdelt_articles may return on a day
DailyArticleLists ==
    {<<>>,
     <<Article("English", "slump")>>,
     <<Article("English", "rally"), Article("English", "update")>>}

\* the first day of the daily scenarios
FirstDay == TargetDay - 2

\* the price history before the first day
EarlierBars == Daily(FirstDay - 3, <<2, 1, 3>>, <<1, 1, 1>>)

InitDaily ==
    /\ today = FirstDay
    /\ priceCsv = EarlierBars
    /\ rawNews = [d \in NewsDays |-> NoSuchKey]
    /\ table = [d \in NewsDays |-> NoItem]
    /\ InitRest

\* the item the collector puts for the day
CollectedItem(news_articles) == [count_24h |-> Len(news_articles), datatype |-> "news"]

\* lambda_handler of the collector for Ticker: today's price CSV (the history with
\* today's bar), today's articles as a bare list, and the item of datatype "news"
Collector ==
    /\ pc \in {"idle", "done"}
    /\ collected[today] = NotCollected
    /\ \E c \in Closes, news_articles \in DailyArticleLists :
           /\ priceCsv' = Append(priceCsv, Bar(today, c, 1))
           /\ rawNews' = [rawNews EXCEPT ![today] = NewsObject("list", news_articles)]
           /\ collected' = [collected EXCEPT ![today] = CollectedItem(news_articles)]
    /\ UNCHANGED <<today, clients, table, localOutput, curated, handlerVars, last_metrics, hist_run,
                   raised>>

\* the next calendar day begins
AdvanceDay ==
    /\ pc \in {"idle", "done"}
    /\ today < TargetDay
    /\ today' = today + 1
    /\ UNCHANGED <<collected, clients, priceCsv, rawNews, table, localOutput, curated, handlerVars,
                   last_metrics, hist_run, raised>>

\* the S3 notification of today's price CSV invokes lambda_handler
DailyInvoke ==
    /\ pc \in {"idle", "done"}
    /\ collected[today] # NotCollected
    /\ ObjectsAt(curated, OutputKey(today, Ticker)) = <<>>
    /\ event' = <<Record(PriceKey(today))>>
    /\ idx' = 1
    /\ success_count' = 0
    /\ error_count' = 0
    /\ outcomes' = <<>>
    /\ runs' = <<>>
    /\ pc' = "loop"
    /\ UNCHANGED <<env, clients, table, localOutput, curated, response, last_metrics, hist_run,
                   raised>>

NextDaily ==
    \/ Collector
    \/ AdvanceDay
    \/ DailyInvoke
    \/ HandlerRecord(NoFaults)
    \/ HandlerReturn
    \/ BackfillNews(NoFaults)

SpecDaily == InitDaily /\ [][NextDaily]_vars

(***************************************************************************)
(* The scorer called on its own: any value, any end of the service call    *)
(***************************************************************************)
MaxCalls == 1

\* arguments of the scorer: strings, the empty string, None and JSON values of other types
ScorerTexts ==
    {PyValue("str", "rally", TRUE), PyValue("str", "", FALSE),
     PyValue("NoneType", "", FALSE), PyValue("int", "", FALSE), PyValue("int", "", TRUE),
     PyValue("list", "", TRUE), PyValue("dict", "", FALSE)}

\* how comprehend.detect_sentiment can end
DetectAnswers ==
    SentimentLabels \cup ClientErrorCodes
        \cup {"NoSentimentKey", "EndpointConnectionError", "ReadTimeoutError"}

ScorerModules == {"daily-feature-engineer", "news_processor"}

InitScorer ==
    /\ today = TargetDay
    /\ priceCsv = <<Bar(TargetDay, 1, 1)>>
    /\ rawNews = [d \in NewsDays |-> NoSuchKey]
    /\ table = [d \in NewsDays |-> NoItem]
    /\ InitRest

\* one call get_sentiment_score(text) in either module
ScorerCall ==
    /\ Len(scorer_calls) < MaxCalls
    /\ \E text \in ScorerTexts, answer \in DetectAnswers, module \in ScorerModules :
           scorer_calls' = Append(scorer_calls,
                                  [text |-> text, answer |-> answer, module |-> module,
                                   result |-> ScoreCall(text, answer)])
    /\ UNCHANGED <<env, chain, invocations, collector_pc, predictions, trend_rows, table, localOutput, curated, handlerVars, last_metrics,
                   hist_run, raised>>

NextScorer == ScorerCall

SpecScorer == InitScorer /\ [][NextScorer]_vars

(***************************************************************************)
(* Prediction side: the model endpoint (notebooks/inference.py) and the    *)
(* feature alignment of the explainer (shap_explainer/handler.py)          *)
(***************************************************************************)
\* expected_features of model_fn
expected_features ==
    {"ret_1d", "mom_5d", "rsi_14", "abn_volume", "ret_lag_1d", "volatility_20d",
     "ma_50d", "ma_200d", "ma_trend_signal", "day_of_week", "month_of_year",
     "return_x_volume", "avg_sentiment_24h", "news_count_24h",
     "positive_count_24h", "negative_count_24h", "sentiment_std_24h",
     "avg_sentiment_3d"}

\* pd.DataFrame([input_features_dict]).reindex(columns=expected_features): the row
\* over the expected names, NaN where the dict has no such key
Reindex(input_features_dict) ==
    [f \in expected_features |->
        IF f \in DOMAIN input_features_dict THEN input_features_dict[f] ELSE NaN]

\* X.isnull().values.any()
AnyNull(X) == \E f \in DOMAIN X : IsNaN(X[f])

\* X.fillna(0)
FillZero(X) == [f \in DOMAIN X |-> IF IsNaN(X[f]) THEN Zero ELSE X[f]]

\* the class probabilities of a loaded model for a row: a Booster predicts the
\* probability of class 1, a sklearn wrapper both probabilities
Booster(p1) == [type |-> "Booster", proba |-> <<RSub(Whole(1), p1), p1>>]

SklearnWrapper(p0, p1) == [type |-> "sklearn", proba |-> <<p0, p1>>]

UnknownModel == [type |-> "other", proba |-> <<NaN, NaN>>]

NoOutput == <<NaN, NaN>>

\* predict_fn: align the row, fill nulls with 0 after a printed warning, predict
predict_fn(input_features_dict, model) ==
    LET X0 == Reindex(input_features_dict)
        X  == IF AnyNull(X0) THEN FillZero(X0) ELSE X0
    IN  IF model.type \in {"Booster", "sklearn"}
        THEN [raised |-> "", X |-> X, warned |-> AnyNull(X0),
              prediction_output |-> model.proba]
        ELSE [raised |-> "TypeError", X |-> X, warned |-> AnyNull(X0),
              prediction_output |-> NoOutput]

Half == Rat(1, 2)

\* output_fn with prob_class_1 > 0.5 as the test for Up
output_fn_strict(prediction_output) ==
    LET prob_class_0 == prediction_output[1]
        prob_class_1 == prediction_output[2]
        direction    == IF RGt(prob_class_1, Half) THEN "Up" ELSE "Down"
    IN  [prediction     |-> direction,
         confidence     |-> IF direction = "Up" THEN prob_class_1 ELSE prob_class_0,
         probability_up |-> prob_class_1]

\* output_fn for accept = application/json: the response body
output_fn(prediction_output) ==
    LET prob_class_0 == prediction_output[1]
        prob_class_1 == prediction_output[2]
        prediction   == IF RGt(prob_class_1, Half) \/ prob_class_1 = Half THEN 1 ELSE 0
        direction    == IF prediction = 1 THEN "Up" ELSE "Down"
    IN  [prediction     |-> direction,
         confidence     |-> IF direction = "Up" THEN prob_class_1 ELSE prob_class_0,
         probability_up |-> prob_class_1]

\* the endpoint serves a request: predict_fn, then output_fn unless predict_fn raised
ServeRequest(input_features_dict, model, predicted) ==
    [raised            |-> predicted.raised,
     response          |-> IF predicted.raised = "" THEN output_fn(predicted.prediction_output)
                           ELSE NoPrediction,
     X                 |-> predicted.X,
     model             |-> model,
     warned            |-> predicted.warned,
     prediction_output |-> predicted.prediction_output,
     site              |-> "endpoint",
     features          |-> input_features_dict]

\* the explainer aligns the row: the expected columns the data has, then reindex
\* (NaN for the others) after a printed warning; it goes on to compute SHAP values
ExplainerAlign(df_row, model) ==
    [raised            |-> "",
     response          |-> NoPrediction,
     X                 |-> Reindex(df_row),
     model             |-> model,
     warned            |-> ~(expected_features \subseteq DOMAIN df_row),
     prediction_output |-> NoOutput,
     site              |-> "shap_explainer",
     features          |-> df_row]

\* the columns of a stored feature row
RowColumns == expected_features \cup {"symbol", "date"}

\* a feature row as a dict: the given columns, v in every feature but the null ones
FeatureDict(columns, nulls, v) ==
    [f \in columns |-> IF f \in nulls THEN NaN ELSE v]

\* rows handed to the prediction side: complete, lacking one expected feature, with a
\* feature under another name, and with a null feature
RequestRows ==
    UNION {{FeatureDict(RowColumns, {}, v)}
           \cup {FeatureDict(RowColumns \ {f}, {}, v) : f \in expected_features}
           \cup {FeatureDict((RowColumns \ {"news_count_24h"}) \cup {"count_24h"}, {}, v)}
           \cup {FeatureDict(RowColumns, {f}, v) : f \in {"mom_5d", "abn_volume"}} :
           v \in {Whole(1), Whole(-1)}}

\* probabilities on a grid of quarters
ProbGrid == {Rat(k, 4) : k \in 0..4}

LoadedModels ==
    {Booster(p1) : p1 \in ProbGrid}
        \cup {SklearnWrapper(p0, p1) : p0 \in ProbGrid, p1 \in ProbGrid}
        \cup {UnknownModel}

InitPredict ==
    /\ today = TargetDay
    /\ priceCsv = <<Bar(TargetDay, 1, 1)>>
    /\ rawNews = [d \in NewsDays |-> NoSuchKey]
    /\ table = [d \in NewsDays |-> NoItem]
    /\ InitRest

\* one invocation of the endpoint
Predict ==
    /\ predictions = <<>>
    /\ \E input_features_dict \in RequestRows, model \in LoadedModels :
           predictions' = <<ServeRequest(input_features_dict, model,
                                         predict_fn(input_features_dict, model))>>
    /\ UNCHANGED <<env, chain, invocations, collector_pc, scorer_calls, trend_rows, table, localOutput, curated, handlerVars, last_metrics,
                   hist_run, raised>>

\* one alignment of the explainer
Explain ==
    /\ predictions = <<>>
    /\ \E df_row \in RequestRows, model \in LoadedModels :
           predictions' = <<ExplainerAlign(df_row, model)>>
    /\ UNCHANGED <<env, chain, invocations, collector_pc, scorer_calls, trend_rows, table, localOutput, curated, handlerVars, last_metrics,
                   hist_run, raised>>

NextPredict == Predict \/ Explain

SpecPredict == InitPredict /\ [][NextPredict]_vars

(***************************************************************************)
(* The moving averages and the trend signal on their own, for series too   *)
(* long for the exact arithmetic of the other features                     *)
(***************************************************************************)
MaxTrendBars == 60

\* df['ma_50d'], df['ma_200d'] and df['ma_trend_signal'] of a price frame
TrendColumns(df, ma_50d, ma_200d) ==
    Column([i \in 1..Len(df) |->
               [ma_50d          |-> ma_50d[i],
                ma_200d         |-> ma_200d[i],
                date            |-> df[i].date,
                ma_trend_signal |-> TrendSignal(ma_50d[i], ma_200d[i])]],
           Len(df))

TrendRows(df) ==
    TrendColumns(df, RollingMean(CloseCol(df), MA_SHORT_WINDOW),
                 RollingMean(CloseCol(df), MA_LONG_WINDOW))

\* the date of row i of n daily bars ending at 1400
TrendDay(n, i) == MovingSeries[Len(MovingSeries)].date - n + i

\* n daily bars rising by one a day
Rising(n) == Column([i \in 1..n |-> Bar(TrendDay(n, i), i, 1)], n)

\* n daily bars falling by one a day
Falling(n) == Column([i \in 1..n |-> Bar(TrendDay(n, i), n + 1 - i, 1)], n)

\* n daily bars rising to a peak at mid-series
Peaked(n) ==
    Column([i \in 1..n |-> Bar(TrendDay(n, i), IF 2 * i <= n THEN i ELSE n + 1 - i, 1)], n)

TrendSeries == UNION {{Rising(n), Falling(n), Peaked(n)} : n \in 1..MaxTrendBars}

InitTrend ==
    /\ today = TargetDay
    /\ priceCsv \in TrendSeries
    /\ rawNews = [d \in NewsDays |-> NoSuchKey]
    /\ table = [d \in NewsDays |-> NoItem]
    /\ InitRest

\* the three columns are computed for the price file
ComputeTrend ==
    /\ trend_rows = <<>>
    /\ trend_rows' = TrendRows(priceCsv)
    /\ UNCHANGED <<env, chain, invocations, collector_pc, scorer_calls, predictions, table, localOutput, curated, handlerVars,
                   last_metrics, hist_run, raised>>

NextTrend == ComputeTrend

SpecTrend == InitTrend /\ [][NextTrend]_vars

(***************************************************************************)
(* Concurrent invocations of the feature engineer, each triggered by the   *)
(* price file of its own target date                                       *)
(***************************************************************************)
ConcurrentTargets == {TargetDay - 2, TargetDay - 1, TargetDay}

InitConcurrent ==
    /\ today = TargetDay
    /\ priceCsv \in {MovingSeries, <<Bar(1398, 1, 1), Bar(1399, 2, 1), Bar(1400, 2, 0)>>}
    /\ \E f, g \in {NoSuchKey, NewsObject("list", <<Article("English", "slump")>>)} :
           rawNews = [d \in NewsDays |-> IF d = TargetDay THEN f
                                         ELSE IF d = TargetDay - 1 THEN g ELSE NoSuchKey]
    /\ \E a \in {NoItem, StoredHalf} :
           table = [d \in NewsDays |-> IF d = TargetDay - 2 THEN a ELSE NoItem]
    /\ InitRest

\* features_df of lambda_handler for the price file of target_date: None and an
\* empty frame are <<>>
FeaturesFor(target_date, df_price_hist) ==
    IF df_price_hist = <<>> THEN <<>>
    ELSE calculate_single_day_features(Ticker, target_date, df_price_hist,
                                       process_current_day_news(RawNewsObject(target_date),
                                                                TRUE),
                                       TableView(df_price_hist), {})

\* lambda_handler of invocation w up to features_df: the price file, the raw news
\* and the stored summaries are read, nothing is written
ComputeFeatures(w) ==
    /\ invocations[w].pc = "idle"
    /\ \E d \in ConcurrentTargets \ {invocations[v].target_date : v \in Invocations} :
           invocations' = [invocations EXCEPT ![w] =
                              [target_date |-> d, pc |-> "computed",
                               features_df |-> FeaturesFor(d, PriceWindow(priceCsv, d))]]
    /\ UNCHANGED <<env, direct, chain, collector_pc, table, localOutput, curated, handlerVars,
                   last_metrics, hist_run, raised>>

\* lambda_handler of invocation w from output_key on
SaveCurated(w) ==
    /\ invocations[w].pc = "computed"
    /\ curated' = IF invocations[w].features_df = <<>> THEN curated
                  ELSE PutObject(curated, OutputKey(invocations[w].target_date, Ticker),
                                 invocations[w].features_df)
    /\ invocations' = [invocations EXCEPT ![w].pc = "done"]
    /\ UNCHANGED <<env, direct, chain, collector_pc, table, localOutput, handlerVars,
                   last_metrics, hist_run, raised>>

NextConcurrent ==
    \/ \E w \in Invocations : ComputeFeatures(w)
    \/ \E w \in Invocations : SaveCurated(w)

SpecConcurrent == InitConcurrent /\ [][NextConcurrent]_vars

(***************************************************************************)
(* The price window of the incremental handler on price files of about     *)
(* MA_LONG_WINDOW bars, and the moving averages of the target row          *)
(***************************************************************************)
MaxWindowBars == 210

\* the dates first..last
AllDays(first, last) == Column([i \in 1..(last - first + 1) |-> first + i - 1], last - first + 1)

\* the trading days among them: Monday to Friday
Weekdays(first, last) == SelectSeq(AllDays(first, last), LAMBDA d : DayOfWeek(d) < 5)

\* a price file with one bar on each of the last n of the dates, the close rising
\* by step a bar
BarsOn(days, n, step) ==
    Column([i \in 1..n |-> Bar(days[Len(days) - n + i], 1 + step * i, 1)], n)

WindowSeries ==
    UNION {{BarsOn(days, n, step) :
               days \in {AllDays(TargetDay - 2 * MaxWindowBars, TargetDay),
                         Weekdays(TargetDay - 2 * MaxWindowBars, TargetDay)},
               step \in {0, 1}} :
           n \in (MA_LONG_WINDOW - 4)..MaxWindowBars}

InitWindow ==
    /\ today = TargetDay
    /\ priceCsv \in WindowSeries
    /\ rawNews = [d \in NewsDays |-> NoSuchKey]
    /\ table = [d \in NewsDays |-> NoItem]
    /\ InitRest

\* lambda_handler filters the price file to the window, calculate_single_day_features
\* computes the moving averages on the window and selects the row of the target date
WindowTrend ==
    /\ trend_rows = <<>>
    /\ trend_rows' = SelectSeq(TrendRows(PriceWindow(priceCsv, TargetDay)),
                               LAMBDA row : row.date = TargetDay)
    /\ UNCHANGED <<env, chain, invocations, collector_pc, scorer_calls, predictions, table,
                   localOutput, curated, handlerVars, last_metrics, hist_run, raised>>

NextWindow == WindowTrend

SpecWindow == InitWindow /\ [][NextWindow]_vars

(***************************************************************************)
(* The daily collector step by step for Ticker, and the feature engineer   *)
(* that the notification of the uploaded price CSV invokes                 *)
(***************************************************************************)
InitRace ==
    /\ today \in NewsDays
    /\ priceCsv = EarlierBars
    /\ rawNews = [d \in NewsDays |-> NoSuchKey]
    /\ table = [d \in NewsDays |-> NoItem]
    /\ InitRest

\* the loop body of the collector up to the upload of the price CSV: today's
\* file is the history with today's bar
UploadPrices ==
    /\ collector_pc = "idle"
    /\ \E c \in Closes : priceCsv' = Append(priceCsv, Bar(today, c, 1))
    /\ collector_pc' = "prices"
    /\ UNCHANGED <<today, collected, rawNews, direct, chain, invocations, table, localOutput,
                   curated, handlerVars, last_metrics, hist_run, raised>>

\* the articles are fetched and uploaded as a bare list
UploadNews ==
    /\ collector_pc = "prices"
    /\ \E news_articles \in DailyArticleLists :
           rawNews' = [rawNews EXCEPT ![today] = NewsObject("list", news_articles)]
    /\ collector_pc' = "news"
    /\ UNCHANGED <<today, collected, priceCsv, direct, chain, invocations, table, localOutput,
                   curated, handlerVars, last_metrics, hist_run, raised>>

\* put_news_summary
PutNewsSummary ==
    /\ collector_pc = "news"
    /\ collected' = [collected EXCEPT ![today] = CollectedItem(rawNews[today].articles)]
    /\ collector_pc' = "done"
    /\ UNCHANGED <<today, priceCsv, rawNews, direct, chain, invocations, table, localOutput,
                   curated, handlerVars, last_metrics, hist_run, raised>>

\* the S3 notification of the price CSV put by UploadPrices
PriceNotification == collector_pc # "idle" /\ Invoke(<<Record(PriceKey(today))>>)

NextRace ==
    \/ UploadPrices
    \/ UploadNews
    \/ PutNewsSummary
    \/ PriceNotification
    \/ HandlerRecord(NoFaults)
    \/ HandlerReturn

SpecRace == InitRace /\ [][NextRace]_vars

(***************************************************************************)
(* The prediction chain: requests of the prediction API, the two stream    *)
(* handlers, and the other writers of the table                            *)
(***************************************************************************)
ChainDates == {TargetDay - 1, TargetDay}

\* a feature file with one row
FeatureFile(key) == [key |-> key, body |-> <<FeatureDict(RowColumns, {}, Whole(1))>>]

\* the curated bucket holds the rows the feature engineer stored for the dates in
\* materialized, and feature files in the layout of the SHAP explainer for the
\* dates in exported
InitChain ==
    /\ today = TargetDay
    /\ priceCsv = <<Bar(TargetDay, 1, 1)>>
    /\ rawNews = [d \in NewsDays |-> NoSuchKey]
    /\ table = [d \in NewsDays |-> NoItem]
    /\ \E materialized \in {<<TargetDay>>, <<TargetDay - 1, TargetDay>>},
          exported \in {<<>>, <<TargetDay>>, <<TargetDay - 1, TargetDay>>} :
           curated =
               Column([i \in 1..Len(materialized) |->
                          FeatureFile(OutputKey(materialized[i], Ticker))],
                      Len(materialized))
               \o Column([i \in 1..Len(exported) |->
                             FeatureFile(ShapFeatureKey(Ticker, exported[i]))],
                         Len(exported))
    /\ InitLocals

\* the puts of a handler reach the table and its stream
Write(its) ==
    /\ items' = PutAll(items, its)
    /\ streams' = [streams EXCEPT !.records = @ \o RecordsOf(items, its)]

\* top_features and values: the features with the largest mean |SHAP value|
ShapOutputs ==
    {[top_features |-> <<"rsi_14", "news_count_24h">>,
      values       |-> <<StrOf(Rat(1, 2)), StrOf(Rat(1, 4))>>],
     [top_features |-> <<"ma_50d">>, values |-> <<StrOf(Zero)>>]}

\* what the two models answer to a prompt: text, no text, blank text, a ClientError
\* that names an access blocker, or any other exception
BedrockOutcomes ==
    {[primary |-> p, fallback |-> "text"] : p \in {"text", "empty", "blank", "raises"}}
        \cup {[primary |-> "blocked", fallback |-> f] : f \in {"text", "empty", "raises"}}

\* what the collaborators of the chain do in a scenario: how many requests are
\* made, the models the endpoint may have loaded, whether the put of the
\* prediction, the query, the load of the SHAP model and the put of the
\* explanation may fail, the SHAP values and the answers of the text models
Smooth ==
    [requests |-> MaxRequests,
     endpoint |-> {Booster(Rat(3, 4))},
     put      |-> FALSE,
     query    |-> FALSE,
     load     |-> FALSE,
     tops     |-> {ts \in ShapOutputs : Len(ts.values) = 1},
     bedrock  |-> {[primary |-> "text", fallback |-> "text"]},
     save     |-> FALSE]

Polling ==
    [Smooth EXCEPT !.endpoint = {Booster(Rat(3, 4)), UnknownModel},
                   !.put = TRUE, !.query = TRUE]

Faulty ==
    [Smooth EXCEPT !.load = TRUE, !.tops = ShapOutputs, !.bedrock = BedrockOutcomes,
                   !.save = TRUE]

\* lambda_handler of the prediction API up to the wait: the date is the query
\* parameter or yesterday, the features are read, the endpoint is invoked and the
\* prediction item is put (an error of the put is printed)
ApiRequest(F) ==
    /\ api.pc \in {"idle", "done"}
    /\ api.request < F.requests
    /\ \E target_date_iso \in {today - 1, TargetDay} :
           LET key     == feature_s3_key(target_date_iso, Ticker)
               ddb_pk  == TickerDate(Ticker, target_date_iso)
               begun   == [NoRequest EXCEPT !.request = api.request + 1, !.ddb_pk = ddb_pk]
               df_features == ObjectsAt(curated, key)
           IN  IF df_features = <<>>
               THEN /\ api' = [begun EXCEPT !.pc = "done", !.statusCode = 404]
                    /\ UNCHANGED <<items, streams>>
               ELSE \E model \in F.endpoint, putok \in Results(F.put) :
                       LET served == ServeRequest(df_features[1].body[1], model,
                                                  predict_fn(df_features[1].body[1], model))
                       IN  IF served.raised # ""
                           THEN /\ api' = [begun EXCEPT !.pc = "done", !.statusCode = 500]
                                /\ UNCHANGED <<items, streams>>
                           ELSE /\ api' = [begun EXCEPT !.pc = "poll",
                                                        !.prediction = served.response]
                                /\ IF putok
                                   THEN Write(<<PredictionItem(ddb_pk, served.response, key,
                                                               target_date_iso,
                                                               api.request + 1)>>)
                                   ELSE UNCHANGED <<items, streams>>
    /\ UNCHANGED <<env, direct, invocations, collector_pc, chain_log, table, localOutput,
                   curated, handlerVars, last_metrics, hist_run, raised>>

\* the request after the loop over response['Items'] of one query
Seen(request, found) ==
    LET shap == {i \in found : i.datatype = "shap" /\ i.top_features # <<>>
                                 /\ i.values # <<>>}
        text == {i \in found : i.datatype = "explanation"}
    IN  [request EXCEPT
            !.shap_metrics     = IF shap = {} THEN @
                                 ELSE [top_features |-> (CHOOSE i \in shap : TRUE).top_features,
                                       values       |-> (CHOOSE i \in shap : TRUE).values],
            !.shap_origin      = IF shap = {} THEN @ ELSE (CHOOSE i \in shap : TRUE).origin,
            !.explanation_text = IF text = {} THEN @
                                 ELSE (CHOOSE i \in text : TRUE).explanation_text,
            !.text_origin      = IF text = {} THEN @ ELSE (CHOOSE i \in text : TRUE).origin]

\* a retry loop without its break
FoundBothNever(request) == FALSE

\* the test before break

FoundBoth(request) ==
    request.shap_metrics # NoShapMetrics /\ request.explanation_text # NotYetAvailable

\* one pass of the retry loop: the query, which may raise, and the test for break
ApiQuery(F) ==
    /\ api.pc = "poll"
    /\ api.attempt < MAX_RETRIES
    /\ \E ok \in Results(F.query) :
           LET seen == IF ok THEN Seen(api, Query(items, api.ddb_pk)) ELSE api
           IN  api' = [seen EXCEPT
                          !.attempt = @ + 1,
                          !.pc = IF (ok /\ FoundBoth(seen)) \/ api.attempt + 1 = MAX_RETRIES
                                 THEN "return" ELSE "poll"]
    /\ UNCHANGED <<env, direct, invocations, collector_pc, items, streams, chain_log, table,
                   localOutput, curated, handlerVars, last_metrics, hist_run, raised>>

\* the API response
ApiReturn ==
    /\ api.pc = "return"
    /\ api' = [api EXCEPT !.pc = "done", !.statusCode = STATUS_OK]
    /\ UNCHANGED <<env, direct, invocations, collector_pc, items, streams, chain_log, table,
                   localOutput, curated, handlerVars, last_metrics, hist_run, raised>>

\* the batch of a stream handler: the next k records it has not been given
Batch(read, k) == SubSeq(streams.records, read + 1, read + k)

\* the loop body of the SHAP explainer up to the load of the features: the record
\* gets past every continue
Explainable(record, bucket) ==
    /\ record.eventName \in {"INSERT", "MODIFY"}
    /\ record.NewImage.datatype = "prediction"
    /\ ObjectsAt(bucket, ShapFeatureKey(record.NewImage.ticker_date[1],
                                        record.NewImage.data_found_for)) # <<>>

\* the record at which the loop of the SHAP explainer returns, 0 if it runs out
FirstExplainable(batch, bucket) ==
    LET S == {i \in 1..Len(batch) : Explainable(batch[i], bucket)}
    IN  IF S = {} THEN 0 ELSE CHOOSE i \in S : \A j \in S : i <= j

\* one invocation of the SHAP explainer on a batch of stream records
ShapHandler(F) ==
    /\ streams.shap_read < Len(streams.records)
    /\ \E k \in 1..MaxRecords, loaded \in Results(F.load), top \in F.tops :
           /\ streams.shap_read + k <= Len(streams.records)
           /\ LET batch == Batch(streams.shap_read, k)
                  i     == IF loaded THEN FirstExplainable(batch, curated) ELSE 0
                  image == batch[i].NewImage
                  item  == ShapItem(image.ticker_date[1], image.ticker_date[2], top,
                                    image.data_found_for, image.origin)
              IN  IF i = 0
                  THEN /\ chain_log' = [handler  |-> "shap_explainer",
                                        returned |-> IF loaded THEN "None"
                                                     ELSE "Failed to load model",
                                        batch    |-> batch,
                                        attempts |-> <<>>]
                       /\ streams' = [streams EXCEPT !.shap_read = @ + k]
                       /\ UNCHANGED items
                  ELSE /\ chain_log' =
                              [handler  |-> "shap_explainer",
                               returned |-> "top_factors",
                               batch    |-> batch,
                               attempts |-> <<[item   |-> item,
                                               key    |-> ShapFeatureKey(
                                                              image.ticker_date[1],
                                                              image.data_found_for),
                                               record |-> i,
                                               saved  |-> TRUE]>>]
                       /\ items' = PutAll(items, <<item>>)
                       /\ streams' = [streams EXCEPT
                                         !.records = @ \o RecordsOf(items, <<item>>),
                                         !.shap_read = @ + k]
    /\ UNCHANGED <<env, direct, invocations, collector_pc, api, table, localOutput, curated,
                   handlerVars, last_metrics, hist_run, raised>>

\* shap_dict: the features and values of a shap item that are both truthy, the
\* values as floats
ShapDict(item) ==
    LET n == IF Len(item.top_features) < Len(item.values) THEN Len(item.top_features)
             ELSE Len(item.values)
    IN  SelectSeq(Column([i \in 1..n |-> <<item.top_features[i], Float(item.values[i])>>], n),
                  LAMBDA fv : fv[1] # "")

ModelText == Text("The model predicts UP because momentum is positive.", <<>>)

\* what a model returns as out["text"]
TextOf(answer) ==
    CASE answer = "text"  -> ModelText
      [] answer = "blank" -> Text(" ", <<>>)
      [] OTHER            -> Text("", <<>>)

\* _safe_invoke: the primary model, and the fallback model when the primary is blocked
safe_invoke(outcome) ==
    CASE outcome.primary = "text" ->
             [raised |-> "", text |-> ModelText, model_used |-> "MODEL_ID"]
      [] outcome.primary \in {"empty", "blank"} ->
             [raised |-> "RuntimeError", text |-> Text("", <<>>), model_used |-> ""]
      [] outcome.primary = "blocked" /\ outcome.fallback # "raises" ->
             [raised |-> "", text |-> TextOf(outcome.fallback),
              model_used |-> "FALLBACK_MODEL_ID"]
      [] OTHER ->
             [raised |-> "ClientError", text |-> Text("", <<>>), model_used |-> ""]

\* explanation of lambda_handler without the test of an empty explanation
ExplanationUntested(shap_dict, bedrock_out) ==
    IF bedrock_out.raised # "" THEN Unavailable(shap_dict) ELSE Strip(bedrock_out.text)

\* explanation of lambda_handler: the stripped text of the model, or the sentence
\* built from the SHAP values when the call raised or the text is empty
Explanation(shap_dict, bedrock_out) ==
    IF bedrock_out.raised # "" THEN Unavailable(shap_dict)
    ELSE IF Strip(bedrock_out.text) = Text("", <<>>) THEN Unavailable(shap_dict)
    ELSE Strip(bedrock_out.text)

\* the record gets past every continue of the explanation handler
Narratable(record) ==
    /\ record.eventName \in {"INSERT", "MODIFY"}
    /\ record.NewImage.datatype = "shap"
    /\ ShapDict(record.NewImage) # <<>>

\* the loop body of the explanation handler for record i of the batch
Narrate(record, i, outcome, putok) ==
    [answer  |-> outcome,
     item    |-> ExplanationItem(record.NewImage.ticker_date[1],
                                 record.NewImage.ticker_date[2],
                                 Explanation(ShapDict(record.NewImage), safe_invoke(outcome)),
                                 IF safe_invoke(outcome).raised # "" THEN "MODEL_ID (errored)"
                                 ELSE safe_invoke(outcome).model_used,
                                 record.NewImage.origin),
     key     |-> record.NewImage.ticker_date,
     record  |-> i,
     saved   |-> putok]

\* the items of the attempts whose put succeeded
SavedItems(attempts) ==
    LET saved == SelectSeq(attempts, LAMBDA a : a.saved)
    IN  Column([i \in 1..Len(saved) |-> saved[i].item], Len(saved))

\* the records of the batch that get past every continue, in order
NarratedOf(batch) == SelectSeq(Column([i \in 1..Len(batch) |-> i], Len(batch)),
                               LAMBDA i : Narratable(batch[i]))

\* one invocation of the explanation handler on a batch of stream records
ExplainHandler(F) ==
    /\ streams.explain_read < Len(streams.records)
    /\ \E k \in 1..MaxRecords :
           /\ streams.explain_read + k <= Len(streams.records)
           /\ \E outcome \in [1..Len(NarratedOf(Batch(streams.explain_read, k))) -> F.bedrock],
                 putok \in [1..Len(NarratedOf(Batch(streams.explain_read, k)))
                                -> Results(F.save)] :
                  LET batch    == Batch(streams.explain_read, k)
                      narrated == NarratedOf(batch)
                      attempts ==
                          Column([j \in 1..Len(narrated) |->
                                     Narrate(batch[narrated[j]], narrated[j], outcome[j],
                                             putok[j])],
                                 Len(narrated))
                  IN  /\ chain_log' = [handler  |-> "explain-with-bedrock",
                                       returned |-> "ok",
                                       batch    |-> batch,
                                       attempts |-> attempts]
                      /\ items' = PutAll(items, SavedItems(attempts))
                      /\ streams' = [streams EXCEPT
                                        !.records = @ \o RecordsOf(items, SavedItems(attempts)),
                                        !.explain_read = @ + k]
    /\ UNCHANGED <<env, direct, invocations, collector_pc, api, table, localOutput, curated,
                   handlerVars, last_metrics, hist_run, raised>>

\* a writer puts an item into the table: the prediction API (step 4 of its
\* handler), the collector (datatype news), the batch news processor (news_metrics)
TablePut ==
    /\ Cardinality({i \in 1..Len(streams.records) :
                        streams.records[i].NewImage.datatype
                            \in {"prediction", "news", "news_metrics"}}) < MaxRecords
    /\ \E d \in ChainDates, datatype \in {"prediction", "news", "news_metrics"} :
           /\ datatype = "prediction" => ObjectsAt(curated, feature_s3_key(d, Ticker)) # <<>>
           /\ datatype # "prediction" => d = today
           /\ Write(<<IF datatype = "prediction"
                      THEN PredictionItem(TickerDate(Ticker, d),
                                          output_fn(Booster(Rat(3, 4)).proba),
                                          feature_s3_key(d, Ticker), d,
                                          Len(streams.records) + 1)
                      ELSE OtherItem(TickerDate(Ticker, d), datatype)>>)
    /\ UNCHANGED <<env, direct, invocations, collector_pc, api, chain_log, table, localOutput,
                   curated, handlerVars, last_metrics, hist_run, raised>>

NextChain ==
    \/ ApiRequest(Polling)
    \/ ApiQuery(Polling)
    \/ ApiReturn
    \/ ShapHandler(Polling)
    \/ ExplainHandler(Polling)

SpecChain == InitChain /\ [][NextChain]_vars

\* a request runs in one invocation of the handler: its loop and its return are
\* the next statements of a running program and are not postponed for ever
SpecChainLive == SpecChain /\ WF_vars(ApiQuery(Polling)) /\ WF_vars(ApiReturn)

\* the stream handlers on their own, with every failure of their collaborators
NextStream ==
    \/ TablePut
    \/ ShapHandler(Faulty)
    \/ ExplainHandler(Faulty)

SpecStream == InitChain /\ [][NextStream]_vars

(***************************************************************************)
(* The news history of the single-target-day path on price files with      *)
(* days missing before the target day                                      *)
(***************************************************************************)
\* how many calendar days back the two bars before the target day may lie
MaxGap == 8

LookbackDays == (TargetDay - MaxGap)..(TargetDay - 1)

\* a price file with two bars before the target day, a summary stored for each
\* of their dates, and raw news for the target day present or not
InitLookback ==
    /\ today = TargetDay
    /\ \E d1 \in LookbackDays, d2 \in LookbackDays :
           /\ d2 < d1
           /\ priceCsv = <<Bar(d2, 2, 1), Bar(d1, 1, 1), Bar(TargetDay, 3, 1)>>
    /\ \E f \in {NoSuchKey, NewsObject("list", <<Article("English", "slump")>>)} :
           rawNews = [d \in NewsDays |-> IF d = TargetDay THEN f ELSE NoSuchKey]
    /\ \E a \in {StoredHalf, StoredMinus}, b \in {StoredHalf, StoredMinus} :
           table = [d \in LookbackDays \cup {TargetDay} |->
                       IF d = priceCsv[1].date THEN a
                       ELSE IF d = priceCsv[2].date THEN b ELSE NoItem]
    /\ InitRest

NextLookback ==
    \/ InvokeSingle({TargetDay})
    \/ HandlerRecord(NoFaults)
    \/ HandlerReturn

SpecLookback == InitLookback /\ [][NextLookback]_vars

(***************************************************************************)
(* Properties: views of the state                                          *)
(***************************************************************************)
\* the rows the historical backfill wrote for date d
HistoricalRowsFor(d) ==
    LET files == ObjectsAt(localOutput, OutputFile(Ticker))
    IN  IF files = <<>> THEN <<>>
        ELSE SelectSeq(files[1].body, LAMBDA row : row.date = d)

\* the rows the incremental handler stored for target date d
IncrementalRowsFor(d) ==
    LET objects == ObjectsAt(curated, OutputKey(d, Ticker))
    IN  IF objects = <<>> THEN <<>> ELSE objects[1].body

\* the handled records whose feature computation ran without any failed read
CleanRun(i) == runs[i].ran /\ ~runs[i].news_failed /\ runs[i].ddb_failed = {}

\* the stored summary of day d is what the aggregator produces from d's raw articles
SummaryMatchesRaw(d) ==
    /\ NewsFileOutcome(rawNews[d]) # "raise"
    /\ table[d] = IF NewsFileOutcome(rawNews[d]) = "write"
                  THEN ItemToWrite(NewsFileMetrics(rawNews[d]))
                  ELSE NoItem

\* both paths have produced a row for TargetDay from the same bars, raw news and
\* stored summaries, every read having succeeded
SameDataBothPaths ==
    /\ pc = "done"
    /\ Len(runs) = 1
    /\ CleanRun(1)
    /\ hist_run.ran
    /\ hist_run.ddb_failed = {}
    /\ \A d \in NewsDays : SummaryMatchesRaw(d)
    /\ IncrementalRowsFor(TargetDay) # <<>>
    /\ HistoricalRowsFor(TargetDay) # <<>>
    /\ ObjectsAt(localOutput, OutputFile(Ticker))[1].body
           = create_features(Ticker, priceCsv, TableView(priceCsv), {})

(***************************************************************************)
(* C1: for the same bars and news (each stored summary being what the      *)
(* aggregator produces from that day's raw articles), the row of the       *)
(* historical backfill for a date and the row of the single-target-day     *)
(* path for that date agree in every one of the 18 named features.         *)
(***************************************************************************)
C1_HistoricalEqualsIncremental ==
    SameDataBothPaths =>
        \A f \in FeatureNames :
            HistoricalRowsFor(TargetDay)[1][f] = IncrementalRowsFor(TargetDay)[1][f]

\* the part of C1 that does hold: the features not derived from stored summaries
C1_PriceFeaturesAgree ==
    SameDataBothPaths =>
        \A f \in FeatureNames \ {"avg_sentiment_24h", "sentiment_std_24h", "avg_sentiment_3d"} :
            HistoricalRowsFor(TargetDay)[1][f] = IncrementalRowsFor(TargetDay)[1][f]

(***************************************************************************)
(* C2: in the single-target-day path the row for the target day D carries  *)
(* the avg_sentiment of D's fresh raw articles, and its avg_sentiment_3d   *)
(* is the mean of the stored values of the two preceding days and that     *)
(* fresh value; a summary stored for D (e.g. a stale 0.5 against a fresh   *)
(* -1.0) never influences the row.                                         *)
(***************************************************************************)
\* the avg_sentiment of the articles in D's raw news object, as fetched in the run
FreshSentiment(run) ==
    process_current_day_news(RawNewsObject(TargetDay), ~run.news_failed).avg_sentiment_24h

\* the stored avg_sentiment of day d as the run read it: 0.0 without an item or
\* when the read failed
StoredSentiment(d, run) ==
    IF d \in run.ddb_failed \/ TableItem(d) = NoItem THEN Zero
    ELSE Rat(TableItem(d).avg_sentiment_24h, FMT_SCALE)

C2_SameDayOverride ==
    (Len(runs) = 1 /\ runs[1].ran /\ IncrementalRowsFor(TargetDay) # <<>>) =>
        LET row   == IncrementalRowsFor(TargetDay)[1]
            fresh == FreshSentiment(runs[1])
        IN  /\ row.avg_sentiment_24h = fresh
            /\ row.avg_sentiment_3d =
                   RDiv(RAdd(RAdd(StoredSentiment(TargetDay - 2, runs[1]),
                                  StoredSentiment(TargetDay - 1, runs[1])),
                             fresh),
                        Whole(3))

\* a stale 0.5 is stored for D, D's fresh articles give -1.0, the two days before
\* hold 0.5 and -1.0: the row has -1.0 and the mean (0.5 - 1.0 - 1.0) / 3
C2_StaleSummaryOverridden ==
    /\ Len(runs) = 1
    /\ CleanRun(1)
    /\ TableItem(TargetDay) = StoredHalf
    /\ TableItem(TargetDay - 2) = StoredHalf
    /\ TableItem(TargetDay - 1) = StoredMinus
    /\ IncrementalRowsFor(TargetDay) # <<>>
    /\ IncrementalRowsFor(TargetDay)[1].avg_sentiment_24h = Whole(-1)
    /\ IncrementalRowsFor(TargetDay)[1].avg_sentiment_3d = Rat(-1, 2)

(***************************************************************************)
(* C3: for every price history with at least one bar, computing features   *)
(* does not fail because optional history (news summaries, earlier bars)   *)
(* is missing, and every row either path returns has all 18 named          *)
(* features present and numeric (no null).                                 *)
(***************************************************************************)
\* every one of the 18 features is a field of the row and holds a number
AllFeaturesNumeric(row) ==
    /\ FeatureNames \subseteq DOMAIN row
    /\ \A f \in FeatureNames : row[f] # NaN /\ Len(row[f]) \in {2, 3} /\ row[f][2] > 0

\* every row written by the historical backfill or stored by the handler
PersistedRows ==
    UNION {{o.body[i] : i \in 1..Len(o.body)} :
           o \in {localOutput[j] : j \in 1..Len(localOutput)}
                 \cup {curated[j] : j \in 1..Len(curated)}}

\* the dates of the bars of the price file
BarDates == {priceCsv[i].date : i \in 1..Len(priceCsv)}

C3_FeaturesPopulated ==
    /\ \A row \in PersistedRows : AllFeaturesNumeric(row)
    /\ \A i \in 1..Len(outcomes) :
           event[i].key.date \in BarDates => outcomes[i] = "saved"
    /\ raised = {}

\* a one-bar history without any news: the row is stored, its return, momentum,
\* lag and volatility imputed
C3_SingleBarRowStored ==
    /\ Len(priceCsv) = 1
    /\ Len(outcomes) = 1
    /\ outcomes[1] = "saved"
    /\ IncrementalRowsFor(priceCsv[1].date) # <<>>
    /\ AllFeaturesNumeric(IncrementalRowsFor(priceCsv[1].date)[1])
    /\ IncrementalRowsFor(priceCsv[1].date)[1].ret_1d = Zero
    /\ IncrementalRowsFor(priceCsv[1].date)[1].volatility_20d = Zero

(***************************************************************************)
(* C4: a required feature that is still null after computation is imputed  *)
(* with 0, identically in the historical backfill and in the incremental   *)
(* path: the same null feature in the same row has the same persisted      *)
(* outcome in both, the row kept with value 0.                             *)
(***************************************************************************)
\* the target row before imputation has a null among the ten nullable features
NullBeforeImputation(d) ==
    \E i \in 1..Len(priceCsv) :
        /\ priceCsv[i].date = d
        /\ ~KeptByDropna(HistoricalFrame(Ticker, priceCsv, TableView(priceCsv), {})[i])

C4_SameImputationBothPaths ==
    \A i \in 1..Len(outcomes) :
        LET d == event[i].key.date
        IN  (/\ outcomes[i] = "saved"
             /\ hist_run.ran
             /\ d >= MaxDate(priceCsv) - RETENTION_DAYS
             /\ NullBeforeImputation(d))
            => /\ HistoricalRowsFor(d) # <<>>
               /\ \A f \in FeatureNames :
                      HistoricalRowsFor(d)[1][f] = IncrementalRowsFor(d)[1][f]

\* the incremental half of C4, which holds: a null feature of the stored row is 0
C4_IncrementalImputesZero ==
    \A i \in 1..Len(outcomes) :
        LET d == event[i].key.date
        IN  (outcomes[i] = "saved" /\ NullBeforeImputation(d)) =>
                \A f \in FeaturesToDropna :
                    IsNaN(IncrementalFrame(Ticker, PriceWindow(priceCsv, d), d, DefaultMetrics,
                                           TableView(priceCsv), {})[
                              Len(PriceWindow(priceCsv, d))][f])
                    => IncrementalRowsFor(d)[1][f] = Zero

(***************************************************************************)
(* C5: for a constant-price series (every day-over-day close difference is *)
(* 0, no gains and no losses) rsi_14 is 100 on every row, and never NaN    *)
(* or a divide-by-zero result.                                             *)
(***************************************************************************)
\* at least two bars, every close equal to the first
ConstantPrices ==
    /\ Len(priceCsv) >= 2
    /\ \A i \in 1..Len(priceCsv) : priceCsv[i].close = priceCsv[1].close

C5_ConstantPriceRsiIs100 ==
    ConstantPrices => \A row \in PersistedRows : row.rsi_14 = Whole(100)

\* what holds instead: with no gain the ratio is 0 / 1e-9 = 0, so rsi_14 is
\* 100 - 100 / (1 + 0) = 0 on every row, and it is never null
C5_ConstantPriceRsiIsZero ==
    ConstantPrices =>
        /\ \A row \in PersistedRows : row.rsi_14 = Zero
        /\ \A i \in 1..Len(priceCsv) : Rsi14(CloseCol(priceCsv))[i] = Zero

\* rsi_14 is near 100 (kept symbolic, third component) when there are gains
\* and no losses
C5_GainsOnlySaturates ==
    (/\ Len(priceCsv) >= 2
     /\ \A i \in 2..Len(priceCsv) : priceCsv[i].close > priceCsv[i - 1].close)
    => \A i \in 2..Len(priceCsv) : Len(Rsi14(CloseCol(priceCsv))[i]) = 3

(***************************************************************************)
(* C6: for any list of raw articles the aggregator scores exactly the      *)
(* articles flagged English that have a non-empty title; avg_sentiment is  *)
(* the arithmetic mean of those scores (0.0 when none was scored),         *)
(* positive_count and negative_count are the numbers of strictly positive  *)
(* and strictly negative scores; other articles contribute to none.        *)
(***************************************************************************)
\* the articles of the target day's raw news object
RawArticles == RawNewsObject(TargetDay).articles

\* positions of the articles that are English and titled
ScoredPositions ==
    {i \in 1..Len(RawArticles) : RawArticles[i].lang = "English" /\ RawArticles[i].title # ""}

PositivePositions == {i \in ScoredPositions : DetectSentiment(RawArticles[i].title) = "POSITIVE"}

NegativePositions == {i \in ScoredPositions : DetectSentiment(RawArticles[i].title) = "NEGATIVE"}

\* the mean of scores that are +1 on PositivePositions, -1 on NegativePositions and
\* 0 elsewhere on ScoredPositions; 0.0 when nothing is scored
ExpectedAverage ==
    IF ScoredPositions = {} THEN Zero
    ELSE Rat(Cardinality(PositivePositions) - Cardinality(NegativePositions),
             Cardinality(ScoredPositions))

MetricsAsSpecified(m) ==
    /\ m.avg_sentiment_24h = ExpectedAverage
    /\ m.positive_count_24h = Whole(Cardinality(PositivePositions))
    /\ m.negative_count_24h = Whole(Cardinality(NegativePositions))

C6_AggregatorScoresEnglishTitled ==
    /\ last_metrics.incr # NoMetrics => MetricsAsSpecified(last_metrics.incr)
    /\ last_metrics.batch # NoMetrics => MetricsAsSpecified(last_metrics.batch)

\* both aggregators have run on a list with a scored positive article, a
\* non-English article and an English article without title
C6_MixedListAggregated ==
    /\ last_metrics.incr # NoMetrics
    /\ last_metrics.batch # NoMetrics
    /\ Len(RawArticles) = 3
    /\ \E i \in 1..3 : RawArticles[i].lang # "English"
    /\ \E i \in 1..3 : RawArticles[i].lang = "English" /\ RawArticles[i].title = ""
    /\ Cardinality(PositivePositions) = 1
    /\ last_metrics.incr.avg_sentiment_24h = Whole(1)
    /\ last_metrics.batch.avg_sentiment_24h = Whole(1)

(***************************************************************************)
(* C7: for a date with no stored summary and no raw articles, and for any  *)
(* date whose summary fetch fails (store error, missing or unreadable raw  *)
(* news file), the five news features resolve to 0 and the row is still    *)
(* produced; one day's missing or failing news never aborts the row.       *)
(***************************************************************************)
NewsFeatures ==
    {"avg_sentiment_24h", "news_count_24h", "positive_count_24h", "negative_count_24h",
     "sentiment_std_24h"}

NewsFeaturesZero(row) == \A f \in NewsFeatures : row[f] = Zero

\* the raw news of the target day is missing, unreadable, or its read failed
NoFreshNews(run) ==
    run.news_failed \/ RawNewsObject(TargetDay).kind \in {"NoSuchKey", "InvalidJSON"}

C7_MissingNewsDefaultsToZero ==
    /\ \A i \in 1..Len(runs) :
           runs[i].ran =>
               /\ outcomes[i] = "saved"
               /\ IncrementalRowsFor(TargetDay) # <<>>
               /\ NoFreshNews(runs[i]) => NewsFeaturesZero(IncrementalRowsFor(TargetDay)[1])
    /\ hist_run.ran =>
           /\ HistoricalRowsFor(TargetDay) # <<>>
           /\ (TableItem(TargetDay) = NoItem \/ TargetDay \in hist_run.ddb_failed)
                  => NewsFeaturesZero(HistoricalRowsFor(TargetDay)[1])

\* the read of the raw news fails although articles exist, a summary read fails
\* too, and the row is stored with the five news features 0
C7_FailedFetchRowStored ==
    /\ Len(runs) = 1
    /\ runs[1].news_failed
    /\ runs[1].ddb_failed # {}
    /\ RawNewsObject(TargetDay).kind = "dict"
    /\ outcomes = <<"saved">>
    /\ NewsFeaturesZero(IncrementalRowsFor(TargetDay)[1])
    /\ hist_run.ran
    /\ TargetDay \in hist_run.ddb_failed
    /\ NewsFeaturesZero(HistoricalRowsFor(TargetDay)[1])

(***************************************************************************)
(* C8: materializing the same (ticker, date) twice with identical inputs   *)
(* leaves the feature store with exactly one row for that key, identical   *)
(* to the row after the first run: the second run overwrites at the same   *)
(* key and never appends a second record.                                  *)
(***************************************************************************)
\* the handled records that stored a row for target date d
SavesFor(d) ==
    {i \in 1..Len(outcomes) : outcomes[i] = "saved" /\ event[i].key = PriceKey(d)}

LastOf(S) == CHOOSE i \in S : \A j \in S : j <= i

\* the row a run for target date d computes from the stores and its reads
RowOfRun(d, run) ==
    calculate_single_day_features(
        Ticker, d, PriceWindow(priceCsv, d),
        process_current_day_news(RawNewsObject(d), ~run.news_failed),
        TableView(PriceWindow(priceCsv, d)), run.ddb_failed)

\* per key the store holds nothing before the first save and afterwards exactly one
\* object, whose content depends on the inputs of the latest save alone: a second
\* save with the inputs of the first leaves the row of the first
C8_OverwriteSameKey ==
    \A d \in HandlerTargets :
        LET objects == ObjectsAt(curated, OutputKey(d, Ticker))
        IN  IF SavesFor(d) = {} THEN objects = <<>>
            ELSE /\ Len(objects) = 1
                 /\ Len(objects[1].body) = 1
                 /\ objects[1].body = RowOfRun(d, runs[LastOf(SavesFor(d))])

\* two records of one event name the same price file, both runs read the same and
\* both saved: the store holds one object
C8_SavedTwiceOneObject ==
    /\ Len(outcomes) >= 2
    /\ outcomes[1] = "saved"
    /\ outcomes[2] = "saved"
    /\ event[1].key = event[2].key
    /\ runs[1] = runs[2]
    /\ Len(curated) = 1
    /\ curated[1].body = RowOfRun(event[1].key.date, runs[1])

(***************************************************************************)
(* C9: in the incremental handler a fatal condition for one S3 record      *)
(* (unreadable price file, empty window, failed computation, failed write) *)
(* never prevents a later record of the event from being processed; on     *)
(* return success_count + error_count is the number of records whose key   *)
(* matched, and the status code is 200 exactly when error_count is 0 and   *)
(* 207 otherwise.                                                          *)
(***************************************************************************)
\* the records among the first n whose key has the price-file format
MatchedAmong(n) == {i \in 1..n : KeyMatches(event[i].key)}

FatalOutcomes == {"get_object_failed", "empty_window", "no_features", "put_object_failed"}

C9_PartialFailureCounted ==
    /\ pc \in {"loop", "done"} =>
           /\ Len(outcomes) = idx - 1
           /\ success_count + error_count = Cardinality(MatchedAmong(idx - 1))
           /\ error_count = Cardinality({i \in 1..Len(outcomes) : outcomes[i] \in FatalOutcomes})
           /\ \A i \in 1..Len(outcomes) : outcomes[i] = "skipped" <=> ~KeyMatches(event[i].key)
    /\ pc = "done" =>
           /\ Len(outcomes) = Len(event)
           /\ response.success_count + response.error_count
                  = Cardinality(MatchedAmong(Len(event)))
           /\ response.error_count = error_count
           /\ response.statusCode = STATUS_OK <=> response.error_count = 0
           /\ response.statusCode = STATUS_PARTIAL <=> response.error_count # 0

\* the first record failed fatally, the second was still processed and saved, and
\* the handler returned 207 with one success and one error
C9_LaterRecordSavedAfterFailure ==
    /\ pc = "done"
    /\ Len(outcomes) = 2
    /\ outcomes[1] \in FatalOutcomes
    /\ outcomes[2] = "saved"
    /\ response = [statusCode |-> STATUS_PARTIAL, success_count |-> 1, error_count |-> 1]

(***************************************************************************)
(* C10: when the price window of a (ticker, date) has zero bars the        *)
(* incremental materialization of that unit is fatal: the error is counted *)
(* and surfaced to the caller, and no feature row is written for that key. *)
(***************************************************************************)
\* the handled records with a matching key whose price window is empty
EmptyWindowRecords ==
    {i \in 1..Len(outcomes) :
        KeyMatches(event[i].key) /\ PriceWindow(priceCsv, event[i].key.date) = <<>>}

C10_EmptyWindowIsFatal ==
    /\ \A i \in EmptyWindowRecords :
           /\ outcomes[i] \in {"empty_window", "get_object_failed"}
           /\ ~runs[i].ran
           /\ ObjectsAt(curated, OutputKey(event[i].key.date, event[i].key.stem)) = <<>>
    /\ error_count >= Cardinality(EmptyWindowRecords)
    /\ (pc = "done" /\ EmptyWindowRecords # {}) =>
           /\ response.statusCode = STATUS_PARTIAL
           /\ response.error_count >= Cardinality(EmptyWindowRecords)

\* the price file has bars, none of them within the lookback of the target date:
\* the record is counted as an error, 207 is returned, the store has no row for it
C10_EmptyWindowReported ==
    /\ pc = "done"
    /\ priceCsv # <<>>
    /\ Len(outcomes) = 1
    /\ outcomes[1] = "empty_window"
    /\ response = [statusCode |-> STATUS_PARTIAL, success_count |-> 0, error_count |-> 1]
    /\ curated = <<>>

(***************************************************************************)
(* C11: a successful incremental materialization for (ticker, target_date) *)
(* writes exactly one row, whose date is target_date; when no row for      *)
(* target_date can be produced (the target date is absent from the price   *)
(* window) the materialization fails and writes nothing.                   *)
(***************************************************************************)
\* the dates of the bars in the price window of target date d
WindowDates(d) ==
    {PriceWindow(priceCsv, d)[i].date : i \in 1..Len(PriceWindow(priceCsv, d))}

C11_OneRowOrFailure ==
    \A i \in 1..Len(outcomes) :
        KeyMatches(event[i].key) =>
            LET d       == event[i].key.date
                objects == ObjectsAt(curated, OutputKey(d, event[i].key.stem))
            IN  /\ outcomes[i] = "saved" =>
                       /\ d \in WindowDates(d)
                       /\ Len(objects) = 1
                       /\ Len(objects[1].body) = 1
                       /\ objects[1].body[1].date = d
                /\ d \notin WindowDates(d) =>
                       /\ outcomes[i] \in FatalOutcomes
                       /\ objects = <<>>

\* the window of the first record has bars but none for its target date: it fails
\* and nothing is stored for it; the second record stores its one row
C11_AbsentTargetFailsNextSaved ==
    /\ Len(outcomes) = 2
    /\ outcomes = <<"no_features", "saved">>
    /\ PriceWindow(priceCsv, event[1].key.date) # <<>>
    /\ ObjectsAt(curated, OutputKey(event[1].key.date, Ticker)) = <<>>
    /\ Len(curated) = 1
    /\ Len(curated[1].body) = 1
    /\ curated[1].body[1].date = event[2].key.date

(***************************************************************************)
(* C12: both aggregation call sites (process_current_day_news and          *)
(* process_news_file) accept a raw news payload whose top level is a bare  *)
(* list of articles, as the daily collector writes it, and aggregate it as *)
(* the same article collection as the wrapped form, without raising.       *)
(***************************************************************************)
\* the target day's payload is a bare list with at least one article
BareListPayload ==
    RawNewsObject(TargetDay).kind = "list" /\ RawNewsObject(TargetDay).articles # <<>>

\* what either call site computes from the same articles in the wrapped form
WrappedMetrics == NewsFileMetrics(NewsObject("dict", RawNewsObject(TargetDay).articles))

C12_BareListAccepted ==
    BareListPayload =>
        /\ "process_news_file" \notin raised
        /\ last_metrics.incr # NoMetrics => last_metrics.incr = WrappedMetrics

\* the incremental half of C12, which holds
C12_IncrementalAcceptsBareList ==
    (BareListPayload /\ last_metrics.incr # NoMetrics) =>
        /\ last_metrics.incr = WrappedMetrics
        /\ last_metrics.incr.news_count_24h = Whole(Len(RawNewsObject(TargetDay).articles))

(***************************************************************************)
(* C13: across a sequence of daily incremental runs, the summary computed  *)
(* for day D from D's raw articles is in the News History Store under the  *)
(* key and datatype the feature engine reads (ticker_D, news_metrics) by   *)
(* the time the run for a later date fetches history for D, so that D's    *)
(* sentiment contributes to avg_sentiment_3d of the following days.        *)
(***************************************************************************)
\* the avg_sentiment of day d's raw articles, 0.0 for a day without raw news
DaySentiment(d) == process_current_day_news(RawNewsObject(d), TRUE).avg_sentiment_24h

\* the days D before T that were collected and materialized
EarlierRunDays(T) ==
    {D \in NewsDays : D < T /\ collected[D] # NotCollected /\ IncrementalRowsFor(D) # <<>>}

C13_EarlierSummaryPersisted ==
    \A T \in NewsDays :
        IncrementalRowsFor(T) # <<>> =>
            /\ \A D \in EarlierRunDays(T) :
                   /\ TableItem(D) # NoItem
                   /\ TableItem(D).avg_sentiment_24h = FormatFixed4(DaySentiment(D))
            /\ (\A D \in NewsDays : D < T => D \in EarlierRunDays(T)) =>
                   IncrementalRowsFor(T)[1].avg_sentiment_3d =
                       RDiv(RAdd(RAdd(DaySentiment(T - 2), DaySentiment(T - 1)),
                                 DaySentiment(T)),
                            Whole(3))

\* what holds instead: no news_metrics item is ever written by the daily pipeline,
\* and every earlier day counts as 0.0 in avg_sentiment_3d
C13_EarlierDaysCountAsZero ==
    /\ \A d \in NewsDays : TableItem(d) = NoItem
    /\ \A T \in NewsDays :
           (IncrementalRowsFor(T) # <<>> /\ \A D \in NewsDays : D < T => D \in EarlierRunDays(T))
           => IncrementalRowsFor(T)[1].avg_sentiment_3d = RDiv(DaySentiment(T), Whole(3))

(***************************************************************************)
(* C14: in historical mode the output is trimmed to the rows within 3      *)
(* years of the latest date, and the only rows dropped for unresolved      *)
(* missing features are the earliest rows of the series; a row after a     *)
(* kept row is never dropped because of a gap or a null feature.           *)
(***************************************************************************)
\* the dates of the rows the historical backfill wrote
KeptDates == {d \in BarDates : HistoricalRowsFor(d) # <<>>}

C14_OnlyLeadingRowsDropped ==
    hist_run.ran =>
        /\ \A d \in KeptDates : d >= MaxDate(priceCsv) - RETENTION_DAYS
        /\ \A d1 \in KeptDates, d2 \in BarDates : d1 < d2 => d2 \in KeptDates

\* what holds instead: the output is trimmed to the retention window, and a row in
\* the window is dropped exactly when one of the ten features is null, wherever it is
C14_NullRowsDroppedAnywhere ==
    hist_run.ran =>
        LET frame == HistoricalFrame(Ticker, priceCsv, TableView(priceCsv), {})
        IN  \A i \in 1..Len(frame) :
                frame[i].date \in KeptDates <=>
                    (InRetention(frame[i], MaxDate(priceCsv)) /\ KeptByDropna(frame[i]))

(***************************************************************************)
(* C15: every summary produced by an aggregator, from any article list and *)
(* any scorer outcomes, has avg_sentiment in [-1, 1], non-negative         *)
(* positive and negative counts that are each, and together, at most the   *)
(* article count, and a non-negative sentiment_std that is 0 when fewer    *)
(* than 2 articles were scored.                                            *)
(***************************************************************************)
InUnitRange(x) == ~IsNaN(x) /\ ~RGt(x, Whole(1)) /\ ~RLt(x, Whole(-1))

SummaryWellFormed(m) ==
    /\ InUnitRange(m.avg_sentiment_24h)
    /\ m.positive_count_24h[2] = 1 /\ m.positive_count_24h[1] >= 0
    /\ m.negative_count_24h[2] = 1 /\ m.negative_count_24h[1] >= 0
    /\ m.positive_count_24h[1] <= m.news_count_24h[1]
    /\ m.negative_count_24h[1] <= m.news_count_24h[1]
    /\ m.positive_count_24h[1] + m.negative_count_24h[1] <= m.news_count_24h[1]
    /\ ~IsNaN(m.sentiment_std_24h) /\ ~RLt(m.sentiment_std_24h, Zero)
    /\ Cardinality(ScoredPositions) < 2 => m.sentiment_std_24h = Zero

\* the stored form of a summary keeps the ranges
ItemWellFormed(item) ==
    /\ item.avg_sentiment_24h \in -FMT_SCALE..FMT_SCALE
    /\ item.positive_count_24h >= 0 /\ item.negative_count_24h >= 0
    /\ item.positive_count_24h + item.negative_count_24h <= item.count_24h
    /\ item.sentiment_std_24h >= 0
    /\ Cardinality(ScoredPositions) < 2 => item.sentiment_std_24h = 0

C15_SummaryWellFormed ==
    /\ last_metrics.incr # NoMetrics => SummaryWellFormed(last_metrics.incr)
    /\ last_metrics.batch # NoMetrics => SummaryWellFormed(last_metrics.batch)
    /\ TableItem(TargetDay) # NoItem => ItemWellFormed(TableItem(TargetDay))

\* both aggregators have run on three scored articles, one positive and one negative:
\* the deviation is positive, and the batch summary is stored
C15_SpreadScoresSummarized ==
    /\ last_metrics.incr # NoMetrics
    /\ last_metrics.batch # NoMetrics
    /\ TableItem(TargetDay) # NoItem
    /\ Cardinality(ScoredPositions) = 3
    /\ Cardinality(PositivePositions) = 1
    /\ Cardinality(NegativePositions) = 1
    /\ RGt(last_metrics.incr.sentiment_std_24h, Zero)
    /\ RGt(last_metrics.batch.sentiment_std_24h, Zero)

(***************************************************************************)
(* C16: the sentiment scorer never raises to its caller: for any input     *)
(* (empty, non-string, or text on which the external service fails with    *)
(* any error) it returns a value in {-1, 0, +1}, and every failure yields  *)
(* 0.                                                                      *)
(***************************************************************************)
\* the call did not get a sentiment label for a non-empty string
FailedCall(call) ==
    \/ call.text.type # "str"
    \/ ~call.text.truthy
    \/ call.answer \notin SentimentLabels

C16_ScorerNeverRaises ==
    \A i \in 1..Len(scorer_calls) :
        /\ scorer_calls[i].result.raised = ""
        /\ scorer_calls[i].result.value \in {Whole(-1), Zero, Whole(1)}
        /\ FailedCall(scorer_calls[i]) => scorer_calls[i].result.value = Zero

\* the scorer was called with a headline on which the service call failed with an
\* error that is not a ClientError, and returned 0
C16_FailureScoredZero ==
    /\ scorer_calls # <<>>
    /\ scorer_calls[1].text = PyValue("str", "rally", TRUE)
    /\ scorer_calls[1].answer = "EndpointConnectionError"
    /\ scorer_calls[1].result = Returned(Zero)

(***************************************************************************)
(* C17: the article count behind news_count_24h follows one counting       *)
(* policy at both aggregation call sites: for the same raw article list,   *)
(* the count the batch news processor stores, which the historical path    *)
(* reads back as news_count_24h, equals the news_count_24h the incremental *)
(* path computes (the number of all articles of the list).                 *)
(***************************************************************************)
\* the batch news processor has handled the target day's file: it stored a summary,
\* or skipped the file for having no articles
BatchHandled ==
    \/ last_metrics.batch # NoMetrics /\ TableItem(TargetDay) # NoItem
    \/ NewsFileOutcome(RawNewsObject(TargetDay)) = "skip"

\* news_count_24h as the historical path reads it for the target day
HistoricalNewsCount ==
    read_news_metrics_from_dynamodb(TableItem(TargetDay), TRUE).news_count_24h

C17_OneCountingPolicy ==
    (BatchHandled /\ last_metrics.incr # NoMetrics) =>
        /\ HistoricalNewsCount = last_metrics.incr.news_count_24h
        /\ HistoricalNewsCount = Whole(Len(RawArticles))

\* both sites have counted a list of three articles of which one only is scored
C17_UnscoredArticlesCounted ==
    /\ last_metrics.batch # NoMetrics
    /\ last_metrics.incr # NoMetrics
    /\ Len(RawArticles) = 3
    /\ Cardinality(ScoredPositions) = 1
    /\ TableItem(TargetDay).count_24h = 3
    /\ last_metrics.incr.news_count_24h = Whole(3)

(***************************************************************************)
(* C18: when the feature row handed to the prediction side lacks a feature *)
(* name the model contract requires, the divergence is detected and the    *)
(* prediction fails loudly; no prediction is produced from a silently      *)
(* substituted value.                                                      *)
(***************************************************************************)
\* the row lacks a name the model expects
LacksExpectedFeature(row) == ~(expected_features \subseteq DOMAIN row)

C18_DivergenceFailsLoudly ==
    \A i \in 1..Len(predictions) :
        LacksExpectedFeature(predictions[i].features) =>
            /\ predictions[i].raised # ""
            /\ predictions[i].response = NoPrediction

\* what holds instead: a missing name is only warned about; the endpoint predicts
\* from 0 in its place, and the explainer goes on with a null in its place
C18_MissingFeatureSubstituted ==
    \A i \in 1..Len(predictions) :
        LacksExpectedFeature(predictions[i].features) =>
            /\ predictions[i].warned
            /\ predictions[i].raised \in {"", "TypeError"}
            /\ \A f \in expected_features \ DOMAIN predictions[i].features :
                   predictions[i].X[f] = IF predictions[i].site = "endpoint" THEN Zero
                                         ELSE NaN
            /\ (predictions[i].site = "endpoint" /\ predictions[i].model # UnknownModel)
                   => predictions[i].response.prediction \in {"Up", "Down"}

(***************************************************************************)
(* C19: for every probability pair produced by the model, the prediction   *)
(* result has direction in {Up, Down}, probability_up in [0,1] and         *)
(* confidence in [0,1]; direction is Up exactly when probability_up >= 0.5 *)
(* and confidence is the probability of the predicted direction, so it is  *)
(* at least 0.5 when the two class probabilities sum to 1.                 *)
(***************************************************************************)
InProbRange(x) == ~IsNaN(x) /\ ~RLt(x, Zero) /\ ~RGt(x, Whole(1))

AtLeastHalf(x) == ~IsNaN(x) /\ ~RLt(x, Half)

PredictionWellFormed(served) ==
    LET prob_class_0 == served.prediction_output[1]
        prob_class_1 == served.prediction_output[2]
        result       == served.response
    IN  /\ result.prediction \in {"Up", "Down"}
        /\ result.probability_up = prob_class_1
        /\ InProbRange(result.probability_up)
        /\ InProbRange(result.confidence)
        /\ result.prediction = "Up" <=> AtLeastHalf(prob_class_1)
        /\ result.confidence = IF result.prediction = "Up" THEN prob_class_1
                               ELSE prob_class_0
        /\ RAdd(prob_class_0, prob_class_1) = Whole(1) => AtLeastHalf(result.confidence)

C19_DirectionAndConfidence ==
    \A i \in 1..Len(predictions) :
        (predictions[i].site = "endpoint" /\ predictions[i].raised = "")
            => PredictionWellFormed(predictions[i])

\* a Booster gave exactly 0.5 for a complete row: the result is Up with confidence 0.5
C19_EvenOddsPredictedUp ==
    /\ predictions # <<>>
    /\ predictions[1].site = "endpoint"
    /\ ~LacksExpectedFeature(predictions[1].features)
    /\ predictions[1].model = Booster(Half)
    /\ predictions[1].response =
           [prediction |-> "Up", confidence |-> Half, probability_up |-> Half]

(***************************************************************************)
(* C20: ma_trend_signal of a row is 1 exactly when that row's ma_50d is    *)
(* strictly greater than its ma_200d and 0 otherwise, both averages being  *)
(* taken over however many rows exist (minimum 1); hence it is 0 on every  *)
(* row of a series with at most 50 bars, and 1 on day 60 of a strictly     *)
(* rising 60-bar series.                                                   *)
(***************************************************************************)
\* the mean of the closes of the last w rows up to row i, or of all rows up to i
\* when there are fewer
TrailingMean(i, w) ==
    LET first == IF i > w THEN i - w + 1 ELSE 1
    IN  Rat(SumSeq(SubSeq(CloseCol(priceCsv), first, i))[1], i - first + 1)

StrictlyRising == \A i \in 2..Len(priceCsv) : priceCsv[i].close > priceCsv[i - 1].close

C20_TrendSignal ==
    trend_rows # <<>> =>
        /\ Len(trend_rows) = Len(priceCsv)
        /\ \A i \in 1..Len(trend_rows) :
               /\ trend_rows[i].ma_50d = TrailingMean(i, 50)
               /\ trend_rows[i].ma_200d = TrailingMean(i, 200)
               /\ trend_rows[i].ma_trend_signal \in {Zero, Whole(1)}
               /\ trend_rows[i].ma_trend_signal = Whole(1)
                      <=> RGt(trend_rows[i].ma_50d, trend_rows[i].ma_200d)
        /\ Len(priceCsv) <= 50 =>
               \A i \in 1..Len(trend_rows) : trend_rows[i].ma_trend_signal = Zero
        /\ (StrictlyRising /\ Len(priceCsv) = 60) => trend_rows[60].ma_trend_signal = Whole(1)

\* the columns of a strictly rising 60-bar series: no signal on day 50, signal on day 60
C20_RisingSeriesSignalled ==
    /\ Len(trend_rows) = 60
    /\ StrictlyRising
    /\ trend_rows[50].ma_trend_signal = Zero
    /\ trend_rows[60].ma_trend_signal = Whole(1)
    /\ RGt(trend_rows[60].ma_50d, trend_rows[60].ma_200d)

(***************************************************************************)
(* C21: concurrent incremental materializations for different (ticker,     *)
(* date) keys are independent: under every interleaving the feature store  *)
(* holds, for the key of each finished invocation, exactly the row a run   *)
(* of that invocation on its own gives, and nothing under any other key.   *)
(***************************************************************************)
\* the target dates of the invocations that have passed put_object
SavedTargets ==
    {invocations[w].target_date : w \in {v \in Invocations : invocations[v].pc = "done"}}

\* the objects one invocation for target date d, run alone, leaves under its key
RunAlone(d) ==
    LET features_df == FeaturesFor(d, PriceWindow(priceCsv, d))
    IN  IF features_df = <<>> THEN <<>>
        ELSE <<[key |-> OutputKey(d, Ticker), body |-> features_df]>>

\* C21
C21_ConcurrentKeysIndependent ==
    /\ \A d \in ConcurrentTargets :
           ObjectsAt(curated, OutputKey(d, Ticker)) =
               IF d \in SavedTargets THEN RunAlone(d) ELSE <<>>
    /\ \A i \in 1..Len(curated) :
           curated[i].key \in {OutputKey(d, Ticker) : d \in SavedTargets}

\* both invocations have saved their rows, the one that began later first
C21_BothSavedOutOfOrder ==
    /\ \A w \in Invocations : invocations[w].pc = "done"
    /\ Len(curated) = 2
    /\ curated[1].key = OutputKey(invocations["B"].target_date, Ticker)
    /\ curated[2].key = OutputKey(invocations["A"].target_date, Ticker)
    /\ invocations["A"].target_date < invocations["B"].target_date

(***************************************************************************)
(* C22: whenever the price file holds at least 200 bars up to and          *)
(* including the target date, the window passed to the engine holds at     *)
(* least 200 such bars, and ma_200d of the target row is the mean of the   *)
(* 200 most recent closes.                                                 *)
(***************************************************************************)
BarsUpTo(df, d) == SelectSeq(df, LAMBDA bar : bar.date <= d)

\* the last w closes of the bars
RecentCloses(df, w) ==
    SubSeq(CloseCol(df), IF Len(df) > w THEN Len(df) - w + 1 ELSE 1, Len(df))

\* C22
C22_WindowHoldsLongLookback ==
    (trend_rows # <<>> /\ Len(BarsUpTo(priceCsv, TargetDay)) >= MA_LONG_WINDOW) =>
        /\ Len(BarsUpTo(PriceWindow(priceCsv, TargetDay), TargetDay)) >= MA_LONG_WINDOW
        /\ trend_rows[1].ma_200d =
               Mean(RecentCloses(BarsUpTo(priceCsv, TargetDay), MA_LONG_WINDOW))

\* what the code gives: the window holds the bars of the last LOOKBACK_DAYS_PRICE
\* calendar days, and ma_200d averages the closes of at most 200 of them
C22_WindowHoldsCalendarDays ==
    trend_rows # <<>> =>
        /\ \A i \in 1..Len(priceCsv) :
               (\E j \in 1..Len(PriceWindow(priceCsv, TargetDay)) :
                    PriceWindow(priceCsv, TargetDay)[j] = priceCsv[i])
                   <=> priceCsv[i].date >= TargetDay - LOOKBACK_DAYS_PRICE
        /\ trend_rows[1].ma_200d =
               Mean(RecentCloses(PriceWindow(priceCsv, TargetDay), MA_LONG_WINDOW))

\* a file of 200 weekday bars leaves fewer than 200 bars in the window
C22_WeekdayFileCutShort ==
    /\ trend_rows # <<>>
    /\ Len(priceCsv) = MA_LONG_WINDOW
    /\ Len(PriceWindow(priceCsv, TargetDay)) < MA_LONG_WINDOW

(***************************************************************************)
(* C23: when the collector has run for (ticker, today) and its price       *)
(* upload triggers the feature engineer, the raw news file of today is in  *)
(* the raw store when the engineer reads it, under every interleaving: the *)
(* row for today reflects the articles the collector fetched.              *)
(***************************************************************************)
\* the articles the collector run of today uploaded
FetchedToday == rawNews[today].articles

\* C23
C23_NewsUploadedBeforeRead ==
    (collector_pc = "done" /\ IncrementalRowsFor(today) # <<>>) =>
        IncrementalRowsFor(today)[1].news_count_24h = Whole(Len(FetchedToday))

\* what the code gives: the row reflects the raw store at the time of the read,
\* which holds either the fetched articles or no file for today yet
C23_RowFromFetchedOrNothing ==
    IncrementalRowsFor(today) # <<>> =>
        \/ NewsFeaturesZero(IncrementalRowsFor(today)[1])
        \/ /\ collector_pc \in {"news", "done"}
           /\ IncrementalRowsFor(today)[1].news_count_24h = Whole(Len(FetchedToday))

\* the engineer stored today's row with the zero default although the collector
\* fetched and uploaded articles for today
C23_RowMissesFetchedNews ==
    /\ collector_pc = "done"
    /\ FetchedToday # <<>>
    /\ IncrementalRowsFor(today) # <<>>
    /\ NewsFeaturesZero(IncrementalRowsFor(today)[1])


(***************************************************************************)
(* The stream handlers                                                     *)
(***************************************************************************)
\* the latest invocation was one of the SHAP explainer with its model loaded
ShapInvoked ==
    chain_log.handler = "shap_explainer" /\ chain_log.returned # "Failed to load model"

\* the records of the latest batch whose features the SHAP explainer can load
ExplainableRecords ==
    {i \in 1..Len(chain_log.batch) : Explainable(chain_log.batch[i], curated)}

\* C24: after an invocation of the SHAP explainer that loaded its model, every
\* INSERT/MODIFY record of datatype prediction in the batch whose features can be
\* loaded has one shap item put under the record's ticker_date, whatever its
\* position in the batch.
C24_EveryRecordExplained ==
    ShapInvoked =>
        \A i \in ExplainableRecords :
            Cardinality({a \in 1..Len(chain_log.attempts) :
                            /\ chain_log.attempts[a].record = i
                            /\ chain_log.attempts[a].item.ticker_date
                                   = chain_log.batch[i].NewImage.ticker_date}) = 1

\* what the code does: the first such record of the batch gets its shap item and
\* no later record gets one
C24_FirstRecordExplained ==
    ShapInvoked =>
        /\ Len(chain_log.attempts) = (IF ExplainableRecords = {} THEN 0 ELSE 1)
        /\ \A a \in 1..Len(chain_log.attempts) :
               /\ chain_log.attempts[a].record \in ExplainableRecords
               /\ \A i \in ExplainableRecords : chain_log.attempts[a].record <= i

\* a batch with two records whose features can be loaded
C24_SecondRecordDropped ==
    ShapInvoked /\ Cardinality(ExplainableRecords) = 2 /\ Len(chain_log.attempts) = 1

\* the prediction records of the latest batch of the SHAP explainer
PredictionRecords ==
    {i \in 1..Len(chain_log.batch) : chain_log.batch[i].NewImage.datatype = "prediction"}

\* C25: the key the SHAP explainer reads for a prediction record is the key the
\* prediction API read the features from, which is the key the feature engineer
\* wrote for that ticker and date.
C25_ExplainerReadsPredictedFile ==
    ShapInvoked =>
        \A i \in PredictionRecords :
            LET image == chain_log.batch[i].NewImage
            IN  /\ ShapFeatureKey(image.ticker_date[1], image.data_found_for)
                       = image.features_s3_path
                /\ image.features_s3_path
                       = OutputKey(image.data_found_for, image.ticker_date[1])

\* the prediction API reads the key the feature engineer wrote
C25_ApiReadsMaterializedKey ==
    \A i \in 1..Len(streams.records) :
        LET image == streams.records[i].NewImage
        IN  image.datatype = "prediction" =>
                image.features_s3_path
                    = OutputKey(image.data_found_for, image.ticker_date[1])

\* the explainer was given a prediction record whose feature file exists under the
\* key of the API and not under the key of the explainer
C25_PredictedFileNotRead ==
    /\ ShapInvoked
    /\ \E i \in PredictionRecords :
           LET image == chain_log.batch[i].NewImage
           IN  /\ ObjectsAt(curated, image.features_s3_path) # <<>>
               /\ ~Explainable(chain_log.batch[i], curated)


(***************************************************************************)
(* The prediction API                                                      *)
(***************************************************************************)
\* the request holds both results of the downstream handlers
BothFound == api.shap_metrics # NoShapMetrics /\ api.explanation_text # NotYetAvailable

\* the request has got past the put of its prediction item
Waiting == api.pc \in {"poll", "return"} \/ (api.pc = "done" /\ api.statusCode = STATUS_OK)

\* the wait of a request: at most MAX_RETRIES queries, none after both results
\* were found, the loop left only with both results or after the last query, and
\* the response a 200 with the prediction, the placeholder text and the empty
\* shap_metrics standing where nothing was found
WaitBounded ==
    /\ api.attempt <= MAX_RETRIES
    /\ api.pc = "poll" => ~BothFound /\ api.attempt < MAX_RETRIES
    /\ api.pc = "return" => BothFound \/ api.attempt = MAX_RETRIES
    /\ Waiting => api.prediction # NoPrediction
    /\ api.pc = "done" /\ api.prediction # NoPrediction => api.statusCode = STATUS_OK
    /\ api.shap_origin = 0 => api.shap_metrics = NoShapMetrics
    /\ api.text_origin = 0 => api.explanation_text = NotYetAvailable

\* C26: the wait of the prediction API always terminates: it issues at most 5
\* queries, stops as soon as both SHAP metrics and explanation text were found, and
\* in every case, query errors and nothing found included, returns a 200 response
\* with the prediction, with the placeholder explanation and empty shap_metrics
\* when they were not found.
C26_WaitTerminatesWithPrediction ==
    /\ []WaitBounded
    /\ (api.pc = "poll") ~> (api.pc = "done" /\ api.statusCode = STATUS_OK)

\* a request returned after MAX_RETRIES queries, some of them failed, with nothing found
C26_ReturnedPlaceholders ==
    /\ api.pc = "done"
    /\ api.statusCode = STATUS_OK
    /\ api.attempt = MAX_RETRIES
    /\ api.prediction # NoPrediction
    /\ api.shap_metrics = NoShapMetrics
    /\ api.explanation_text = NotYetAvailable

\* a request returned before its last query with both results
C26_ReturnedEarly ==
    api.pc = "done" /\ api.statusCode = STATUS_OK /\ api.attempt < MAX_RETRIES /\ BothFound


\* C27: the model_explanation and shap_metrics a request returns were produced in
\* response to the prediction item of that same request; items an earlier request
\* for the same key left in the table are never returned.
C27_ResultsOfOwnRequest ==
    api.pc = "done" /\ api.statusCode = STATUS_OK =>
        /\ api.shap_origin \in {0, api.request}
        /\ api.text_origin \in {0, api.request}

\* what the query guarantees: the results returned are items stored under the
\* ticker_date of the request, by the chain of this or of an earlier request
C27_ResultsOfSameKey ==
    api.pc = "done" /\ api.statusCode = STATUS_OK =>
        /\ api.shap_origin \in 0..api.request
        /\ api.text_origin \in 0..api.request
        /\ api.shap_origin # 0 =>
               \E i \in 1..Len(streams.records) :
                   LET image == streams.records[i].NewImage
                   IN  /\ image.datatype = "shap"
                       /\ image.ticker_date = api.ddb_pk
                       /\ image.origin = api.shap_origin
                       /\ image.top_features = api.shap_metrics.top_features


\* the stream records of a datatype that go back to the prediction item of origin
RecordsFrom(origin, datatype) ==
    {i \in 1..Len(streams.records) :
        /\ streams.records[i].NewImage.origin = origin
        /\ streams.records[i].NewImage.datatype = datatype}

\* C28: the chain a write starts on the shared table is finite: a prediction write
\* causes at most one shap write for its key, a shap write at most one explanation
\* write, and an explanation, news or news_metrics write causes no write of
\* either stream handler.
C28_ChainFinite ==
    /\ \A i \in 1..Len(streams.records) :
           LET image == streams.records[i].NewImage
           IN  /\ image.datatype \in {"shap", "explanation"} => image.origin # 0
               /\ image.datatype \in {"news", "news_metrics"} => image.origin = 0
               /\ image.datatype = "shap" =>
                      \E p \in RecordsFrom(image.origin, "prediction") :
                          /\ p < i
                          /\ streams.records[p].NewImage.ticker_date = image.ticker_date
               /\ image.datatype = "explanation" =>
                      \E p \in RecordsFrom(image.origin, "shap") :
                          /\ p < i
                          /\ streams.records[p].NewImage.ticker_date = image.ticker_date
    /\ \A origin \in 1..Len(streams.records) :
           /\ Cardinality(RecordsFrom(origin, "prediction")) <= 1
           /\ Cardinality(RecordsFrom(origin, "shap"))
                  <= Cardinality(RecordsFrom(origin, "prediction"))
           /\ Cardinality(RecordsFrom(origin, "explanation"))
                  <= Cardinality(RecordsFrom(origin, "shap"))

\* both handlers have been given every record, among them a whole chain of
\* prediction, shap and explanation and a record of another writer
C28_ChainRanOut ==
    /\ streams.shap_read = Len(streams.records)
    /\ streams.explain_read = Len(streams.records)
    /\ \E origin \in 1..Len(streams.records) :
           /\ RecordsFrom(origin, "prediction") # {}
           /\ RecordsFrom(origin, "shap") # {}
           /\ RecordsFrom(origin, "explanation") # {}
    /\ \E i \in 1..Len(streams.records) :
           streams.records[i].NewImage.datatype \in {"news", "news_metrics"}


\* the latest invocation was one of the explanation handler
ExplainInvoked == chain_log.handler = "explain-with-bedrock"

\* the puts the latest invocation attempted for record i of its batch
AttemptsFor(i) ==
    {a \in 1..Len(chain_log.attempts) :
        /\ chain_log.attempts[a].record = i
        /\ chain_log.attempts[a].item.datatype = "explanation"
        /\ chain_log.attempts[a].item.ticker_date = chain_log.batch[i].NewImage.ticker_date}

\* the model call raised, returned no text, or the fallback model failed
NoModelText(answer) ==
    \/ answer.primary \in {"raises", "empty", "blank"}
    \/ answer.primary = "blocked" /\ answer.fallback \in {"raises", "empty"}

\* C29: for every shap stream record with at least one feature with a value the
\* explanation handler attempts exactly one explanation write for that key, and
\* the text written is never empty: when the model call raises, returns empty
\* text, or the fallback model fails, it is the sentence 'Explanation currently
\* unavailable. Key drivers were ...' built from the SHAP values.
C29_OneExplanationNeverEmpty ==
    ExplainInvoked =>
        /\ \A i \in 1..Len(chain_log.batch) :
               Cardinality(AttemptsFor(i))
                   = (IF Narratable(chain_log.batch[i]) THEN 1 ELSE 0)
        /\ \A a \in 1..Len(chain_log.attempts) :
               LET attempt == chain_log.attempts[a]
                   image   == chain_log.batch[attempt.record].NewImage
               IN  /\ a \in AttemptsFor(attempt.record)
                   /\ attempt.item.explanation_text.wording \notin {"", " "}
                   /\ attempt.item.explanation_text
                          = (IF NoModelText(attempt.answer)
                             THEN Unavailable(ShapDict(image))
                             ELSE ModelText)
                   /\ ShapDict(image) # <<>>

\* the primary model was blocked and the fallback model returned no text: the
\* sentence built from the SHAP values was written
C29_FallbackGaveNoText ==
    /\ ExplainInvoked
    /\ \E a \in 1..Len(chain_log.attempts) :
           LET attempt == chain_log.attempts[a]
           IN  /\ attempt.answer = [primary |-> "blocked", fallback |-> "empty"]
               /\ attempt.saved
               /\ attempt.item.explanation_text
                      = Unavailable(ShapDict(chain_log.batch[attempt.record].NewImage))
               /\ Len(attempt.item.explanation_text.drivers) = 2


(***************************************************************************)
(* The news-history lookback                                               *)
(***************************************************************************)
\* the dates of the two price rows before the target row
PrecedingDays == {priceCsv[i].date : i \in 1..(Len(priceCsv) - 1)}

\* the mean of the stored avg_sentiment of the two preceding price rows and the
\* fresh value of the target day
StoredMean3d(run) ==
    RDiv(RAdd(RAdd(StoredSentiment(priceCsv[1].date, run),
                   StoredSentiment(priceCsv[2].date, run)),
              FreshSentiment(run)),
         Whole(3))

\* C30: in the single-target-day path the two price rows before the target date
\* fall inside the fetched news history, weekends, holidays and gaps of the price
\* series included, so avg_sentiment_3d of the target row is the mean of their
\* stored avg_sentiment values and the fresh one, never of a zero filled in for a
\* date that was not fetched.
C30_PrecedingRowsFetched ==
    (Len(runs) = 1 /\ runs[1].ran /\ IncrementalRowsFor(TargetDay) # <<>>) =>
        /\ PrecedingDays \subseteq FetchedDays(TargetDay)
        /\ IncrementalRowsFor(TargetDay)[1].avg_sentiment_3d = StoredMean3d(runs[1])

\* what the code guarantees: the stored values are used when both preceding rows
\* are at most LOOKBACK_DAYS_NEWS_ROLLING calendar days before the target date
C30_FetchedRowsUseStored ==
    (Len(runs) = 1 /\ runs[1].ran /\ IncrementalRowsFor(TargetDay) # <<>>
         /\ \A d \in PrecedingDays : d >= TargetDay - LOOKBACK_DAYS_NEWS_ROLLING) =>
        IncrementalRowsFor(TargetDay)[1].avg_sentiment_3d = StoredMean3d(runs[1])

\* the row before the target row is six days back: its stored -1.0 is replaced by 0
C30_StoredValueReplacedByZero ==
    /\ Len(runs) = 1
    /\ runs[1].ran
    /\ IncrementalRowsFor(TargetDay) # <<>>
    /\ priceCsv[2].date = TargetDay - LOOKBACK_DAYS_NEWS_ROLLING - 1
    /\ TableItem(priceCsv[2].date) = StoredMinus
    /\ IncrementalRowsFor(TargetDay)[1].avg_sentiment_3d # StoredMean3d(runs[1])
=============================================================================
